---- MODULE Spec2Model ----
(***************************************************************************)
(* Model of the machine core of marty: the memory bus (src/src/bus.rs),    *)
(* the execution control and the run loop (src/src/machine.rs).            *)
(*                                                                         *)
(* The 1 MiB address space is scaled down to MemSize bytes; every          *)
(* comparison against memory.len() in the source is a comparison against   *)
(* MemSize here.                                                           *)
(***************************************************************************)
EXTENDS Integers, Sequences, FiniteSets, TLC

\* ------------------------------------------------------------------------
\* Bounds of the model
\* ------------------------------------------------------------------------
MemSize == 2
MaxDesc == 2
MaxCycles == 8
MaxKb == 2
\* The model's u32 holds 0 .. U32 - 1 with U32 = 4 + 7 * U32Scale, which leaves
\* the same remainder modulo the step cost 7 as the program's 2^32
U32Scale == 2
\* Likewise the u64 of cpu_cycles holds 0 .. U64 - 1 with U64 = 2 + 7 * U64Scale;
\* it is wider than anything a run within MaxCycles adds up to
U64Scale == 10
\* usize::MAX of the model: a usize holds 0 .. UsizeMax
UsizeMax == 7
\* Character cells in the video memory handed to draw_text_mode (an 80 x 25 page)
MemCells == 2000

\* ------------------------------------------------------------------------
\* Program constants
\* ------------------------------------------------------------------------
DEFAULT_CYCLE_COST == 4
ROM_BIT == 128
U32 == 4 + 7 * U32Scale
U64 == 2 + 7 * U64Scale

Addrs == 0 .. (MemSize - 1)

\* ------------------------------------------------------------------------
\* Integer conversions and bit operators of the source language
\* ------------------------------------------------------------------------
RECURSIVE BitAnd(_, _)
BitAnd(x, y) ==
    IF x = 0 \/ y = 0 THEN 0
    ELSE (IF x % 2 = 1 /\ y % 2 = 1 THEN 1 ELSE 0) + 2 * BitAnd(x \div 2, y \div 2)

RECURSIVE BitOr(_, _)
BitOr(x, y) ==
    IF x = 0 THEN y
    ELSE IF y = 0 THEN x
    ELSE (IF x % 2 = 1 \/ y % 2 = 1 THEN 1 ELSE 0) + 2 * BitOr(x \div 2, y \div 2)

as_u8(x) == x % 256
as_u16(x) == x % 65536
as_i8(x) == IF x % 256 >= 128 THEN (x % 256) - 256 ELSE x % 256
as_i16(x) == IF x % 65536 >= 32768 THEN (x % 65536) - 65536 ELSE x % 65536

\* ------------------------------------------------------------------------
\* BusInterface: construction, copy_from, patch_from, reset
\* ------------------------------------------------------------------------
BusNew ==
    [memory      |-> [a \in Addrs |-> 0],
     memory_mask |-> [a \in Addrs |-> 0],
     desc_vec    |-> << >>,
     cursor      |-> 0]

MemRangeDescriptor(start, end, size, cycle_cost, read_only) ==
    [start |-> start, end |-> end, size |-> size,
     cycle_cost |-> cycle_cost, read_only |-> read_only]

\* Fault variant of the mask byte: only the low nibble of the cycle cost is kept
access_mask_low_nibble(cycle_cost, read_only) ==
    BitOr(BitAnd(as_u8(cycle_cost), 15), IF read_only THEN ROM_BIT ELSE 0)

access_mask(cycle_cost, read_only) ==
    BitOr(BitAnd(as_u8(cycle_cost), 239), IF read_only THEN ROM_BIT ELSE 0)

\* Fault variant of copy_from: every byte of the range receives src_vec[0]
copy_from_first_byte(b, src_vec, location, cycle_cost, read_only) ==
    LET src_size == Len(src_vec) IN
    IF location + src_size > MemSize
    THEN [ok |-> FALSE, bus |-> b]
    ELSE [ok |-> TRUE,
          bus |-> [b EXCEPT
            !.memory = [a \in Addrs |->
                IF a >= location /\ a < location + src_size
                THEN src_vec[1] ELSE b.memory[a]],
            !.memory_mask = [a \in Addrs |->
                IF a >= location /\ a < location + src_size
                THEN access_mask(cycle_cost, read_only) ELSE b.memory_mask[a]],
            !.desc_vec = Append(b.desc_vec,
                MemRangeDescriptor(location, location + src_size, src_size,
                                   cycle_cost, read_only))]]

copy_from(b, src_vec, location, cycle_cost, read_only) ==
    LET src_size == Len(src_vec) IN
    IF location + src_size > MemSize
    THEN [ok |-> FALSE, bus |-> b]
    ELSE [ok |-> TRUE,
          bus |-> [b EXCEPT
            !.memory = [a \in Addrs |->
                IF a >= location /\ a < location + src_size
                THEN src_vec[a - location + 1] ELSE b.memory[a]],
            !.memory_mask = [a \in Addrs |->
                IF a >= location /\ a < location + src_size
                THEN access_mask(cycle_cost, read_only) ELSE b.memory_mask[a]],
            !.desc_vec = Append(b.desc_vec,
                MemRangeDescriptor(location, location + src_size, src_size,
                                   cycle_cost, read_only))]]

\* Fault variant of patch_from: ROM-masked bytes are left alone
patch_from_masked(b, src_vec, location) ==
    LET src_size == Len(src_vec) IN
    IF location + src_size > MemSize
    THEN [ok |-> FALSE, bus |-> b]
    ELSE [ok |-> TRUE,
          bus |-> [b EXCEPT !.memory = [a \in Addrs |->
                IF a >= location /\ a < location + src_size
                   /\ BitAnd(b.memory_mask[a], ROM_BIT) = 0
                THEN src_vec[a - location + 1] ELSE b.memory[a]]]]

patch_from(b, src_vec, location) ==
    LET src_size == Len(src_vec) IN
    IF location + src_size > MemSize
    THEN [ok |-> FALSE, bus |-> b]
    ELSE [ok |-> TRUE,
          bus |-> [b EXCEPT
            !.memory = [a \in Addrs |->
                IF a >= location /\ a < location + src_size
                THEN src_vec[a - location + 1] ELSE b.memory[a]]]]

\* `location + src_size` on usize (bus.rs:125, 160): a sum above usize::MAX
\* panics in a build with overflow checks and wraps around in one without
usize_add(x, y, overflow_checks) ==
    IF x + y <= UsizeMax THEN [panic |-> FALSE, val |-> x + y]
    ELSE IF overflow_checks THEN [panic |-> TRUE, val |-> 0]
    ELSE [panic |-> FALSE, val |-> (x + y) % (UsizeMax + 1)]

\* copy_from for any usize location: the bounds test on the (possibly
\* wrapped) sum, then the slice memory[location..location + src_size], which
\* panics when its start lies behind its end
copy_from_usize(b, src_vec, location, cycle_cost, read_only, overflow_checks) ==
    LET end == usize_add(location, Len(src_vec), overflow_checks) IN
    IF end.panic THEN [panic |-> TRUE, ok |-> FALSE, bus |-> b]
    ELSE IF end.val > MemSize THEN [panic |-> FALSE, ok |-> FALSE, bus |-> b]
    ELSE IF location > end.val THEN [panic |-> TRUE, ok |-> FALSE, bus |-> b]
    ELSE [panic |-> FALSE, ok |-> TRUE,
          bus |-> copy_from(b, src_vec, location, cycle_cost, read_only).bus]

patch_from_usize(b, src_vec, location, overflow_checks) ==
    LET end == usize_add(location, Len(src_vec), overflow_checks) IN
    IF end.panic THEN [panic |-> TRUE, ok |-> FALSE, bus |-> b]
    ELSE IF end.val > MemSize THEN [panic |-> FALSE, ok |-> FALSE, bus |-> b]
    ELSE IF location > end.val THEN [panic |-> TRUE, ok |-> FALSE, bus |-> b]
    ELSE [panic |-> FALSE, ok |-> TRUE, bus |-> patch_from(b, src_vec, location).bus]

\* Fault variant of reset: the access mask is cleared as well
bus_reset_with_mask(b) ==
    [b EXCEPT !.desc_vec = << >>,
              !.memory = [a \in Addrs |-> 0],
              !.memory_mask = [a \in Addrs |-> 0]]

bus_reset(b) ==
    [b EXCEPT !.desc_vec = << >>, !.memory = [a \in Addrs |-> 0]]

\* ------------------------------------------------------------------------
\* BusInterface: address-indexed accessors
\* ------------------------------------------------------------------------
ReadErr == [ok |-> FALSE, val |-> 0, cycles |-> 0]

\* Fault variant of read_u8: the last byte of the address space is refused
read_u8_short(b, address) ==
    IF address < MemSize - 1
    THEN [ok |-> TRUE, val |-> b.memory[address], cycles |-> DEFAULT_CYCLE_COST]
    ELSE ReadErr

read_u8(b, address) ==
    IF address < MemSize
    THEN [ok |-> TRUE, val |-> b.memory[address], cycles |-> DEFAULT_CYCLE_COST]
    ELSE ReadErr

read_i8(b, address) ==
    IF address < MemSize
    THEN [ok |-> TRUE, val |-> as_i8(b.memory[address]), cycles |-> DEFAULT_CYCLE_COST]
    ELSE ReadErr

\* Fault variant of read_u16: the bytes are combined high byte first
read_u16_big_endian(b, address) ==
    IF address < MemSize - 1
    THEN [ok |-> TRUE,
          val |-> BitOr(b.memory[address + 1], b.memory[address] * 256),
          cycles |-> DEFAULT_CYCLE_COST]
    ELSE ReadErr

read_u16(b, address) ==
    IF address < MemSize - 1
    THEN [ok |-> TRUE,
          val |-> BitOr(b.memory[address], b.memory[address + 1] * 256),
          cycles |-> DEFAULT_CYCLE_COST]
    ELSE ReadErr

read_i16(b, address) ==
    IF address < MemSize - 1
    THEN [ok |-> TRUE,
          val |-> as_i16(BitOr(b.memory[address], b.memory[address + 1] * 256)),
          cycles |-> DEFAULT_CYCLE_COST]
    ELSE ReadErr

\* Fault variant of write_u8: the access mask is not consulted
write_u8_unmasked(b, address, data) ==
    IF address < MemSize
    THEN [ok |-> TRUE, cycles |-> DEFAULT_CYCLE_COST,
          bus |-> [b EXCEPT !.memory[address] = data]]
    ELSE [ok |-> FALSE, cycles |-> 0, bus |-> b]

write_u8(b, address, data) ==
    IF address < MemSize
    THEN [ok |-> TRUE, cycles |-> DEFAULT_CYCLE_COST,
          bus |-> IF BitAnd(b.memory_mask[address], ROM_BIT) = 0
                  THEN [b EXCEPT !.memory[address] = data]
                  ELSE b]
    ELSE [ok |-> FALSE, cycles |-> 0, bus |-> b]

write_i8(b, address, data) ==
    IF address < MemSize
    THEN [ok |-> TRUE, cycles |-> DEFAULT_CYCLE_COST,
          bus |-> IF BitAnd(b.memory_mask[address], ROM_BIT) = 0
                  THEN [b EXCEPT !.memory[address] = as_u8(data)]
                  ELSE b]
    ELSE [ok |-> FALSE, cycles |-> 0, bus |-> b]

\* Fault variant of write_u16: the bytes are stored high byte first
write_u16_big_endian(b, address, data) ==
    IF address < MemSize - 1
    THEN [ok |-> TRUE, cycles |-> DEFAULT_CYCLE_COST,
          bus |-> IF BitAnd(b.memory_mask[address], ROM_BIT) = 0
                  THEN [b EXCEPT !.memory[address] = as_u8(data \div 256),
                                 !.memory[address + 1] = as_u8(BitAnd(data, 255))]
                  ELSE b]
    ELSE [ok |-> FALSE, cycles |-> 0, bus |-> b]

write_u16(b, address, data) ==
    IF address < MemSize - 1
    THEN [ok |-> TRUE, cycles |-> DEFAULT_CYCLE_COST,
          bus |-> IF BitAnd(b.memory_mask[address], ROM_BIT) = 0
                  THEN [b EXCEPT !.memory[address] = as_u8(BitAnd(data, 255)),
                                 !.memory[address + 1] = as_u8(data \div 256)]
                  ELSE b]
    ELSE [ok |-> FALSE, cycles |-> 0, bus |-> b]

write_i16(b, address, data) ==
    IF address < MemSize - 1
    THEN [ok |-> TRUE, cycles |-> DEFAULT_CYCLE_COST,
          bus |-> IF BitAnd(b.memory_mask[address], ROM_BIT) = 0
                  THEN [b EXCEPT !.memory[address] = as_u8(BitAnd(as_u16(data), 255)),
                                 !.memory[address + 1] = as_u8(as_u16(data) \div 256)]
                  ELSE b]
    ELSE [ok |-> FALSE, cycles |-> 0, bus |-> b]

\* ------------------------------------------------------------------------
\* impl ByteInterface for BusInterface: cursor-based accessors.  Each takes
\* the caller's cycle accumulator `cost` and returns its new value; the
\* accumulators of the model stay far below the u32 range.
\* ------------------------------------------------------------------------
set_cursor(b, pos) == [b EXCEPT !.cursor = pos]

bi_read_u8(b, cost) ==
    IF b.cursor < MemSize
    THEN [val |-> b.memory[b.cursor],
          cost |-> cost + DEFAULT_CYCLE_COST,
          bus |-> [b EXCEPT !.cursor = b.cursor + 1]]
    ELSE [val |-> 255, cost |-> cost + DEFAULT_CYCLE_COST, bus |-> b]

bi_read_i8(b, cost) ==
    IF b.cursor < MemSize
    THEN [val |-> as_i8(b.memory[b.cursor]),
          cost |-> cost + DEFAULT_CYCLE_COST,
          bus |-> [b EXCEPT !.cursor = b.cursor + 1]]
    ELSE [val |-> -1, cost |-> cost + DEFAULT_CYCLE_COST, bus |-> b]

bi_write_u8(b, data, cost) ==
    IF b.cursor < MemSize
    THEN [val |-> 0,
          cost |-> cost + DEFAULT_CYCLE_COST + DEFAULT_CYCLE_COST,
          bus |-> [b EXCEPT !.memory[b.cursor] = data, !.cursor = b.cursor + 1]]
    ELSE [val |-> 0, cost |-> cost + DEFAULT_CYCLE_COST, bus |-> b]

bi_write_i8(b, data, cost) ==
    IF b.cursor < MemSize
    THEN [val |-> 0,
          cost |-> cost + DEFAULT_CYCLE_COST + DEFAULT_CYCLE_COST,
          bus |-> [b EXCEPT !.memory[b.cursor] = as_u8(data), !.cursor = b.cursor + 1]]
    ELSE [val |-> 0, cost |-> cost + DEFAULT_CYCLE_COST, bus |-> b]

\* Fault variant of the cursor read_u16: an out-of-range read returns 0 and
\* charges nothing
bi_read_u16_free_zero(b, cost) ==
    IF b.cursor < MemSize - 1
    THEN [val |-> BitOr(b.memory[b.cursor], b.memory[b.cursor + 1] * 256),
          cost |-> cost + DEFAULT_CYCLE_COST * 2,
          bus |-> [b EXCEPT !.cursor = b.cursor + 2]]
    ELSE [val |-> 0, cost |-> cost, bus |-> b]

bi_read_u16(b, cost) ==
    IF b.cursor < MemSize - 1
    THEN [val |-> BitOr(b.memory[b.cursor], b.memory[b.cursor + 1] * 256),
          cost |-> cost + DEFAULT_CYCLE_COST * 2,
          bus |-> [b EXCEPT !.cursor = b.cursor + 2]]
    ELSE [val |-> 65535, cost |-> cost + DEFAULT_CYCLE_COST * 2, bus |-> b]

bi_read_i16(b, cost) ==
    IF b.cursor < MemSize - 1
    THEN [val |-> as_i16(BitOr(b.memory[b.cursor], b.memory[b.cursor + 1] * 256)),
          cost |-> cost + DEFAULT_CYCLE_COST * 2,
          bus |-> [b EXCEPT !.cursor = b.cursor + 2]]
    ELSE [val |-> -1, cost |-> cost + DEFAULT_CYCLE_COST * 2, bus |-> b]

\* Fault variant of the cursor write_u16: the cursor advances by one byte
bi_write_u16_advance_one(b, data, cost) ==
    IF b.cursor < MemSize - 1
    THEN [val |-> 0,
          cost |-> cost + DEFAULT_CYCLE_COST * 2 + DEFAULT_CYCLE_COST * 2,
          bus |-> [b EXCEPT
              !.memory[b.cursor] = BitOr(b.memory[b.cursor], as_u8(BitAnd(data, 255))),
              !.memory[b.cursor + 1] = BitOr(b.memory[b.cursor + 1], as_u8(data \div 256)),
              !.cursor = b.cursor + 1]]
    ELSE [val |-> 0, cost |-> cost + DEFAULT_CYCLE_COST * 2, bus |-> b]

bi_write_u16(b, data, cost) ==
    IF b.cursor < MemSize - 1
    THEN [val |-> 0,
          cost |-> cost + DEFAULT_CYCLE_COST * 2 + DEFAULT_CYCLE_COST * 2,
          bus |-> [b EXCEPT
              !.memory[b.cursor] = BitOr(b.memory[b.cursor], as_u8(BitAnd(data, 255))),
              !.memory[b.cursor + 1] = BitOr(b.memory[b.cursor + 1], as_u8(data \div 256)),
              !.cursor = b.cursor + 2]]
    ELSE [val |-> 0, cost |-> cost + DEFAULT_CYCLE_COST * 2, bus |-> b]

bi_write_i16(b, data, cost) ==
    IF b.cursor < MemSize - 1
    THEN [val |-> 0,
          cost |-> cost + DEFAULT_CYCLE_COST * 2 + DEFAULT_CYCLE_COST * 2,
          bus |-> [b EXCEPT
              !.memory[b.cursor] =
                  BitOr(b.memory[b.cursor], as_u8(BitAnd(as_u16(data), 255))),
              !.memory[b.cursor + 1] =
                  BitOr(b.memory[b.cursor + 1], as_u8(as_u16(data) \div 256)),
              !.cursor = b.cursor + 2]]
    ELSE [val |-> 0, cost |-> cost + DEFAULT_CYCLE_COST * 2, bus |-> b]

\* ------------------------------------------------------------------------
\* BusInterface::dump_flat
\* ------------------------------------------------------------------------
\* chunks_exact(16): only complete rows of 16 bytes are printed
DumpRow == 16

\* The character column: printable ASCII as itself, anything else as '.'
ascii_char(byte) == IF 32 <= byte /\ byte <= 127 THEN byte ELSE 46

\* One printed row: the display address, the bytes and the character column
dump_row(b, display_address) ==
    [address |-> display_address,
     bytes |-> [i \in 1 .. DumpRow |-> b.memory[display_address + i - 1]],
     ascii |-> [i \in 1 .. DumpRow |-> ascii_char(b.memory[display_address + i - 1])]]

\* oob stands for the returned text "REQUEST OUT OF BOUNDS", rows for the
\* printed dump
dump_flat(b, address, size) ==
    IF address + size >= MemSize
    THEN [oob |-> TRUE, rows |-> << >>]
    ELSE [oob |-> FALSE,
          rows |-> [k \in 1 .. (size \div DumpRow) |->
                       dump_row(b, address + (k - 1) * DumpRow)]]

\* ------------------------------------------------------------------------
\* video.rs: text-mode glyph drawing.  The frame's pixels are not modelled,
\* only where the font table is read and where the frame is written.
\* ------------------------------------------------------------------------
CGA_FONT_LEN == 2048
FONT_SPAN == 32
FONT_W == 8
FONT_H == 8
FRAME_W == 640
FRAME_H == 400

Highest(S) == CHOOSE m \in S : \A n \in S : n <= m

\* Index into CGA_FONT of row draw_glyph_y of a glyph
glyph_offset(glyph, draw_glyph_y) ==
    (glyph \div FONT_SPAN) * (FONT_H * FONT_SPAN)
        + (draw_glyph_y * FONT_SPAN) + (glyph % FONT_SPAN)

\* The frame is a slice of frame_w * frame_h RGBA pixels
frame_len(frame_w, frame_h) == frame_w * frame_h * 4

\* One glyph in 40-column mode.  drawn is FALSE when the off-screen test
\* returned; font_max is the highest font index read, frame_max the highest
\* frame offset written (the last byte of each pixel written is listed)
draw_glyph4x(glyph, frame_w, frame_h, char_height, pos_x, pos_y) ==
    IF (pos_x + (FONT_W * 2) > frame_w) \/ (pos_y * 2 + (FONT_H * 2) > frame_h)
    THEN [drawn |-> FALSE, font_max |-> 0, frame_max |-> 0]
    ELSE [drawn |-> TRUE,
          font_max |-> Highest({glyph_offset(glyph, draw_glyph_y) :
                                  draw_glyph_y \in 0 .. (char_height - 1)}),
          frame_max |-> Highest(UNION {
              LET dst_row_offset == frame_w * 4 * ((pos_y * 2) + (draw_glyph_y * 2))
                  dst_row_offset2 == dst_row_offset + (frame_w * 4)
                  dst_offset == dst_row_offset + ((pos_x * 2) + (draw_glyph_x * 2)) * 4
                  dst_offset2 == dst_row_offset2 + ((pos_x * 2) + (draw_glyph_x * 2)) * 4
              IN {dst_offset + 3, (dst_offset + 4) + 3,
                  dst_offset2 + 3, (dst_offset2 + 4) + 3} :
              draw_glyph_y \in 0 .. (char_height - 1),
              draw_glyph_x \in 0 .. (FONT_W - 1)})]

\* One glyph in 80-column mode
draw_glyph2x(glyph, frame_w, frame_h, char_height, pos_x, pos_y) ==
    IF pos_x + FONT_W > frame_w \/ pos_y * 2 + (FONT_H * 2) > frame_h
    THEN [drawn |-> FALSE, font_max |-> 0, frame_max |-> 0]
    ELSE [drawn |-> TRUE,
          font_max |-> Highest({glyph_offset(glyph, draw_glyph_y) :
                                  draw_glyph_y \in 0 .. (char_height - 1)}),
          frame_max |-> Highest(UNION {
              LET dst_row_offset == frame_w * 4 * ((pos_y * 2) + (draw_glyph_y * 2))
                  dst_row_offset2 == dst_row_offset + (frame_w * 4)
                  dst_offset == dst_row_offset + (pos_x + draw_glyph_x) * 4
                  dst_offset2 == dst_row_offset2 + (pos_x + draw_glyph_x) * 4
              IN {dst_offset + 3, dst_offset2 + 3} :
              draw_glyph_y \in 0 .. (char_height - 1),
              draw_glyph_x \in 0 .. (FONT_W - 1)})]

mem_span(lowres) == IF lowres THEN 40 ELSE 80

\* An index past the end of CGA_FONT or of the frame slice panics
glyph_panics(g, frame_w, frame_h) ==
    g.drawn /\ (g.font_max >= CGA_FONT_LEN \/ g.frame_max >= frame_len(frame_w, frame_h))

\* ------------------------------------------------------------------------
\* Collaborators of the Machine whose code lives outside machine.rs and
\* bus.rs (ROM manager, CPU, PIC, tickable devices), reduced to the
\* contract the run loop uses.
\* ------------------------------------------------------------------------
FlatAddrs == 0 .. 2
ResetFlat == 1
IntFlat == 0
PatchFlat == 2
RomLoc == MemSize - 1
RomImage == << 128 >>
RomPatch == << 1 >>
TickDevices == {"dma", "pit", "cga", "ppi", "fdc", "hdc"}

rom_copy_into_memory(b) == copy_from(b, RomImage, RomLoc, 4, TRUE).bus
rom_is_patch_checkpoint(flat_address) == flat_address = PatchFlat
rom_install_patches(b) == patch_from(b, RomPatch, RomLoc).bus

CpuNew == [flat |-> ResetFlat, is_error |-> FALSE, iflag |-> FALSE]
cpu_reset(c) == [flat |-> ResetFlat, is_error |-> FALSE, iflag |-> FALSE]
\* What one cpu.step may do: o.err is the Err result, o.flat and o.iflag the
\* registers after the instruction, o.wr an optional byte store.
\* o.vec says whether the PIC, once polled, returns a vector.
StepOutcome(err, flat, iflag, wr, vec) ==
    [err |-> err, flat |-> flat, iflag |-> iflag, wr |-> wr, vec |-> vec]
StepOutcomes ==
    { StepOutcome(FALSE, ResetFlat, FALSE, << >>, TRUE),
      StepOutcome(FALSE, PatchFlat, FALSE, <<0, 1>>, TRUE),
      StepOutcome(FALSE, IntFlat, TRUE, << >>, TRUE),
      StepOutcome(FALSE, PatchFlat, TRUE, <<RomLoc, 1>>, FALSE),
      StepOutcome(TRUE, PatchFlat, FALSE, << >>, TRUE) }
cpu_step(c, o) == [flat |-> o.flat, is_error |-> o.err, iflag |-> o.iflag]
cpu_step_bus(b, o) == IF o.wr = << >> THEN b ELSE write_u8(b, o.wr[1], o.wr[2]).bus
cpu_do_hw_interrupt(c) == [c EXCEPT !.flat = IntFlat, !.iflag = FALSE]

PicNew == [line |-> FALSE, irq1 |-> 0]
pic_reset(p) == [p EXCEPT !.line = FALSE]
pic_request_interrupt(p, irq) ==
    [p EXCEPT !.line = TRUE, !.irq1 = IF irq = 1 THEN p.irq1 + 1 ELSE p.irq1]
pic_get_interrupt_vector(p) == [p EXCEPT !.line = FALSE]

\* A device is either in its power-on state (fresh) or not
DevNew == [d \in TickDevices |-> [fresh |-> TRUE]]
dev_run(ds, d, cycles) == [ds EXCEPT ![d].fresh = FALSE]
dev_reset(ds, d) == [ds EXCEPT ![d].fresh = TRUE]

\* ------------------------------------------------------------------------
\* State
\* ------------------------------------------------------------------------
VARIABLES
    bus,            \* Machine.bus : BusInterface
    ret,            \* the last BusInterface call: its arguments and result
    exec_control,   \* ExecutionControl { state, do_step, do_run, do_reset }
    kb_buf,         \* Machine.kb_buf
    error,          \* Machine.error
    error_str,      \* Machine.error_str
    cpu_cycles,     \* Machine.cpu_cycles
    cpu,            \* Machine.cpu
    pic,            \* Machine.pic
    ppi_rx,         \* bytes handed to Machine.ppi by send_keyboard
    devs,           \* the six devices the loop runs
    call,           \* the run call in progress or just returned: arguments,
                    \* locals, position, and what it has done so far
    video           \* the Video::draw_text_mode call in progress or just returned

vars == << bus, ret, exec_control, kb_buf, error, error_str, cpu_cycles,
           cpu, pic, ppi_rx, devs, call, video >>

machine_vars == << exec_control, kb_buf, error, error_str, cpu_cycles,
                   cpu, pic, ppi_rx, devs, call, video >>

NoRet ==
    [op |-> "none", address |-> 0, data |-> 0, src |-> << >>, cycle_cost |-> 0,
     read_only |-> FALSE, ok |-> TRUE, val |-> 0, cycles |-> 0, cost0 |-> 0, cost |-> 0,
     rows |-> << >>, panic |-> FALSE]

\* No draw_text_mode call has been made
NoDraw ==
    [pc |-> "idle", glyph |-> 0, char_height |-> 0, lowres |-> FALSE,
     i |-> 0, drawn |-> FALSE, font_max |-> 0, frame_max |-> 0]

NoCall ==
    [pc |-> "idle", cycle_target |-> 0, breakpoint |-> 0,
     kb_event_processed |-> FALSE, ignore_breakpoint |-> FALSE,
     cycle_target_adj |-> 0, cycles_elapsed |-> 0,
     flat_address |-> 0, exit |-> "none", iters |-> 0, steps |-> 0, hw_ints |-> 0,
     ticks |-> [d \in TickDevices |-> 0], cycles0 |-> 0, kb0 |-> 0,
     log |-> << >>]

ExecutionControlNew ==
    [state |-> "Paused", do_step |-> FALSE, do_run |-> FALSE, do_reset |-> FALSE]

\* Machine::new
Init ==
    /\ bus = rom_copy_into_memory(BusNew)
    /\ ret = NoRet
    /\ video = NoDraw
    /\ exec_control = ExecutionControlNew
    /\ kb_buf = << >>
    /\ error = FALSE
    /\ error_str = ""
    /\ cpu_cycles = 0
    /\ cpu = CpuNew
    /\ pic = PicNew
    /\ ppi_rx = << >>
    /\ devs = DevNew
    /\ call = NoCall

\* ------------------------------------------------------------------------
\* ExecutionControl
\* ------------------------------------------------------------------------
ExecStates == {"Paused", "BreakpointHit", "Running"}

\* Fault variant of do_run: the transition is taken from every state
ec_do_run_any_state(ec) == [ec EXCEPT !.do_run = TRUE, !.state = "Running"]

ec_do_run(ec) ==
    IF ec.state = "Paused" \/ ec.state = "BreakpointHit"
    THEN [ec EXCEPT !.do_run = TRUE, !.state = "Running"]
    ELSE ec

\* No run call is in progress, and the cycle budget of the model is not used up
Returned == call.pc \in {"idle", "done"}
NotInRun == Returned /\ cpu_cycles < MaxCycles

SetState(s) ==
    /\ NotInRun
    /\ exec_control' = [exec_control EXCEPT !.state = s]
    /\ call' = NoCall
    /\ UNCHANGED << bus, ret, video, kb_buf, error, error_str, cpu_cycles, cpu, pic, ppi_rx, devs >>

DoStep ==
    /\ NotInRun
    /\ exec_control' = [exec_control EXCEPT !.do_step = TRUE]
    /\ call' = NoCall
    /\ UNCHANGED << bus, ret, video, kb_buf, error, error_str, cpu_cycles, cpu, pic, ppi_rx, devs >>

DoRun ==
    /\ NotInRun
    /\ exec_control' = ec_do_run(exec_control)
    /\ call' = NoCall
    /\ UNCHANGED << bus, ret, video, kb_buf, error, error_str, cpu_cycles, cpu, pic, ppi_rx, devs >>

DoReset ==
    /\ NotInRun
    /\ exec_control' = [exec_control EXCEPT !.do_reset = TRUE]
    /\ call' = NoCall
    /\ UNCHANGED << bus, ret, video, kb_buf, error, error_str, cpu_cycles, cpu, pic, ppi_rx, devs >>

\* ------------------------------------------------------------------------
\* Machine: keyboard
\* ------------------------------------------------------------------------
ScanCodes == {30}

\* key_release: the high bit turns a scan code into its release code
release_code(code) == BitOr(code, 128)

\* The model follows at most MaxKb bytes through the queue
KbRoom == Len(kb_buf) + Len(ppi_rx) < MaxKb

key_press(code) ==
    /\ kb_buf' = Append(kb_buf, code)
    /\ call' = NoCall
    /\ UNCHANGED << bus, ret, video, exec_control, error, error_str, cpu_cycles, cpu, pic, ppi_rx, devs >>

key_release(code) ==
    /\ kb_buf' = Append(kb_buf, release_code(code))
    /\ call' = NoCall
    /\ UNCHANGED << bus, ret, video, exec_control, error, error_str, cpu_cycles, cpu, pic, ppi_rx, devs >>

KeyPress(code) == NotInRun /\ KbRoom /\ key_press(code)

KeyRelease(code) == NotInRun /\ KbRoom /\ key_release(code)

\* ------------------------------------------------------------------------
\* Machine::reset
\* ------------------------------------------------------------------------
\* Fault variant of Machine::reset: nothing is reset
machine_reset_skipped(m) == m

\* Fault variant of Machine::reset: every device is reset, not only PIT and PIC
machine_reset_every_device(m) ==
    [m EXCEPT !.cpu = cpu_reset(m.cpu),
              !.bus = rom_copy_into_memory(bus_reset(m.bus)),
              !.devs = DevNew,
              !.pic = pic_reset(m.pic)]

machine_reset(m) ==
    [m EXCEPT !.cpu = cpu_reset(m.cpu),
              !.bus = rom_copy_into_memory(bus_reset(m.bus)),
              !.devs = dev_reset(m.devs, "pit"),
              !.pic = pic_reset(m.pic)]

\* ------------------------------------------------------------------------
\* Machine::run.  RunCall is the entry of run up to the head of the while
\* loop; RunStep is one iteration of the loop, including the return that
\* follows it when the loop condition no longer holds.
\* ------------------------------------------------------------------------
fake_cycles == 7
CycleTargets == {0, 8, U32 - 1}
Breakpoints == {0, 2}

cycle_target_adj(ec, cycle_target) ==
    IF ec.state = "Paused" THEN 1 ELSE cycle_target

\* Fault variant of paused_return: run never returns early when Paused
paused_return_never(ec) == FALSE

\* The `false => return` arm: Paused and no step requested
paused_return(ec) == ec.state = "Paused" /\ ~ec.do_step

\* Fault variant of step_ignores_breakpoint: the breakpoint is always ignored
step_ignores_breakpoint_always(ec) == TRUE

\* The step arm sets ignore_breakpoint
step_ignores_breakpoint(ec) == ec.state = "Paused"

\* Fault variant of step_consumed: the step request is cleared in every state
step_consumed_any_state(ec) == [ec EXCEPT !.do_step = FALSE]

\* The step arm clears do_step; the Running and BreakpointHit arms leave it
step_consumed(ec) ==
    IF ec.state = "Paused" THEN [ec EXCEPT !.do_step = FALSE] ELSE ec

run_entry(cycle_target, breakpoint) ==
    LET entry == [NoCall EXCEPT
                    !.cycle_target = cycle_target, !.breakpoint = breakpoint,
                    !.cycles0 = cpu_cycles, !.kb0 = Len(kb_buf)]
    IN
    /\ IF exec_control.do_reset
       THEN LET m == machine_reset([cpu |-> cpu, bus |-> bus, devs |-> devs, pic |-> pic])
            IN /\ cpu' = m.cpu
               /\ bus' = m.bus
               /\ devs' = m.devs
               /\ pic' = m.pic
               /\ exec_control' = [exec_control EXCEPT !.do_reset = FALSE]
               /\ call' = [entry EXCEPT !.pc = "done", !.exit = "reset"]
       ELSE IF paused_return(exec_control)
       THEN /\ call' = [entry EXCEPT !.pc = "done", !.exit = "paused"]
            /\ UNCHANGED << cpu, bus, devs, pic, exec_control >>
       ELSE LET adj == cycle_target_adj(exec_control, cycle_target) IN
            /\ exec_control' = step_consumed(exec_control)
            /\ call' = [entry EXCEPT
                          !.ignore_breakpoint = step_ignores_breakpoint(exec_control),
                          !.cycle_target_adj = adj,
                          !.pc = IF 0 < adj THEN "loop" ELSE "done",
                          !.exit = IF 0 < adj THEN "none" ELSE "budget"]
            /\ UNCHANGED << cpu, bus, devs, pic >>
    /\ UNCHANGED << ret, video, kb_buf, error, error_str, cpu_cycles, ppi_rx >>

RunCall(cycle_target, breakpoint) == NotInRun /\ run_entry(cycle_target, breakpoint)

\* Head of the loop body: the breakpoint test
breakpoint_hit(c, flat_address) ==
    flat_address = c.breakpoint /\ c.breakpoint # 0 /\ ~c.ignore_breakpoint

\* Fault variant of loop_tail: cycles_elapsed advances by 8 per iteration
loop_tail_cost8(c, overflow_checks) ==
    LET elapsed == (c.cycles_elapsed + 8) % U32 IN
    IF overflow_checks /\ c.cycles_elapsed + 8 >= U32
    THEN [c EXCEPT !.pc = "panic", !.exit = "panic", !.iters = c.iters + 1]
    ELSE [c EXCEPT !.cycles_elapsed = elapsed,
                   !.iters = c.iters + 1,
                   !.pc = IF elapsed < c.cycle_target_adj THEN "loop" ELSE "done",
                   !.exit = IF elapsed < c.cycle_target_adj THEN "none" ELSE "budget"]

\* Tail of the loop body: the cycle counters and the loop condition.
\* cycles_elapsed += fake_cycles overflows the u32 in a build that traps (the
\* call panics) or in one that wraps
loop_tail(c, overflow_checks) ==
    LET elapsed == (c.cycles_elapsed + fake_cycles) % U32 IN
    IF overflow_checks /\ c.cycles_elapsed + fake_cycles >= U32
    THEN [c EXCEPT !.pc = "panic", !.exit = "panic", !.iters = c.iters + 1]
    ELSE [c EXCEPT !.cycles_elapsed = elapsed,
                   !.iters = c.iters + 1,
                   !.pc = IF elapsed < c.cycle_target_adj THEN "loop" ELSE "done",
                   !.exit = IF elapsed < c.cycle_target_adj THEN "none" ELSE "budget"]

\* The two counters of the loop tail, in source order: cycles_elapsed, then
\* self.cpu_cycles += fake_cycles as u64, which overflows the u64 the same
\* two ways
count_cycles(c, cycles, overflow_checks) ==
    LET tail == loop_tail(c, overflow_checks) IN
    IF tail.pc = "panic"
    THEN [call |-> tail, cpu_cycles |-> cycles]
    ELSE IF overflow_checks /\ cycles + fake_cycles >= U64
    THEN [call |-> [tail EXCEPT !.pc = "panic", !.exit = "panic"], cpu_cycles |-> cycles]
    ELSE [call |-> tail, cpu_cycles |-> (cycles + fake_cycles) % U64]

\* One entry of call.log: a call the loop body makes, with the argument that
\* matters (cycles for a device, the line for request_interrupt, the byte for
\* the keyboard calls, 1 for a cpu.step that returns Err)
Ev(name, arg) == [ev |-> name, arg |-> arg]

\* One device's run call as the loop makes it: x.devs are the devices,
\* x.log the calls made so far in this iteration
tick(x, d, cycles) ==
    [devs |-> dev_run(x.devs, d, cycles), log |-> Append(x.log, Ev(d, cycles))]

\* Fault variant of run_devices: the PIT is run before the DMA controller
run_devices_pit_first(x) ==
    tick(tick(tick(tick(tick(tick(x,
        "pit", fake_cycles), "dma", 0), "cga", 7), "ppi", 7),
        "fdc", fake_cycles), "hdc", fake_cycles)

\* Fault variant of run_devices: the hard disk controller is left out
run_devices_without_hdc(x) ==
    tick(tick(tick(tick(tick(x,
        "dma", 0), "pit", fake_cycles), "cga", 7), "ppi", 7),
        "fdc", fake_cycles)

run_devices(x) ==
    tick(tick(tick(tick(tick(tick(x,
        "dma", 0), "pit", fake_cycles), "cga", 7), "ppi", 7),
        "fdc", fake_cycles), "hdc", fake_cycles)

\* The device calls of one executed step, in the order they are made; they do
\* not depend on the state of the devices
device_calls == run_devices([devs |-> DevNew, log |-> << >>]).log

\* The per-call tick counters after the device calls in log
ticked(c, log) ==
    [c EXCEPT !.ticks = [d \in TickDevices |->
        c.ticks[d] + Cardinality({i \in DOMAIN log : log[i].ev = d})]]

\* ------------------------------------------------------------------------
\* RefCell borrows taken by the loop body.  Every device is an
\* Rc<RefCell<..>> field of Machine; borrow_mut on a handle that is already
\* borrowed panics.
\* ------------------------------------------------------------------------
Handles == {"pic", "pit", "dma", "ppi", "cga", "fdc", "hdc"}

borrow_mut(h) == [op |-> "borrow_mut", handle |-> h]
drop_ref(h) == [op |-> "drop", handle |-> h]

\* The temporaries borrowed by the statement that makes the call `name`, in
\* the order they are borrowed: the receiver, then the arguments
call_borrows(name) ==
    CASE name = "send_keyboard" -> << "ppi" >>
      [] name = "request_interrupt" -> << "pic" >>
      [] name = "dma" -> << "dma" >>
      [] name = "pit" -> << "pit", "pic", "dma" >>
      [] name = "cga" -> << "cga" >>
      [] name = "ppi" -> << "ppi", "pic" >>
      [] name = "fdc" -> << "fdc", "pic", "dma" >>
      [] name = "hdc" -> << "hdc", "pic", "dma" >>
      [] OTHER -> << >>

\* The calls made on `let mut pic = self.pic.borrow_mut()` and under it
PollCalls == {"query_interrupt_line", "get_interrupt_vector", "do_hw_interrupt"}

\* Fault variant of poll_scope_ends: the polling borrow is bound in the scope
\* of the whole loop body
poll_scope_ends_with_body(log, i) == i = Len(log)

\* The polling borrow is dropped where the `if interrupts_enabled` block
\* ends: after the last call of the block
poll_scope_ends(log, i) == i = Len(log) \/ log[i + 1].ev \notin PollCalls

\* The borrows and drops around the i-th call of an iteration: temporaries
\* are dropped at the end of their statement, in reverse order
borrows_before(log, i) ==
    IF log[i].ev = "query_interrupt_line" THEN << borrow_mut("pic") >>
    ELSE [k \in DOMAIN call_borrows(log[i].ev) |-> borrow_mut(call_borrows(log[i].ev)[k])]

drops_after(log, i) ==
    IF log[i].ev \in PollCalls
    THEN IF poll_scope_ends(log, i) THEN << drop_ref("pic") >> ELSE << >>
    ELSE LET bs == call_borrows(log[i].ev) IN
         [k \in DOMAIN bs |-> drop_ref(bs[Len(bs) + 1 - k])]

RECURSIVE borrow_trace_from(_, _)
borrow_trace_from(log, i) ==
    IF i > Len(log) THEN << >>
    ELSE borrows_before(log, i) \o drops_after(log, i) \o borrow_trace_from(log, i + 1)

\* The borrow_mut calls and drops of one loop iteration, in program order
borrow_trace(log) == borrow_trace_from(log, 1)

\* The probes at the head of an executed step
probes(flat_address) ==
    << Ev("get_flat_address", flat_address), Ev("breakpoint_check", 0),
       Ev("get_checkpoint", flat_address), Ev("is_patch_checkpoint", flat_address) >>

\* Fault variant of hw_interrupt: the CPU's interrupt flag is not consulted
hw_interrupt_unmasked(c, p, o) ==
    IF p.line /\ o.vec
    THEN [cpu |-> cpu_do_hw_interrupt(c),
          pic |-> pic_get_interrupt_vector(p),
          delivered |-> TRUE,
          log |-> << Ev("query_interrupt_line", 1), Ev("get_interrupt_vector", 1),
                     Ev("do_hw_interrupt", 0) >>]
    ELSE [cpu |-> c, pic |-> p, delivered |-> FALSE,
          log |-> << Ev("query_interrupt_line", IF p.line THEN 1 ELSE 0) >>]

\* Hardware interrupt delivery after the CPU step: c is the CPU after the
\* step, p the PIC, o.vec whether get_interrupt_vector returns Some.  The
\* argument logged with a query is its answer (1 for true or Some)
hw_interrupt(c, p, o) ==
    IF c.iflag
    THEN IF p.line
         THEN IF o.vec
              THEN [cpu |-> cpu_do_hw_interrupt(c),
                    pic |-> pic_get_interrupt_vector(p),
                    delivered |-> TRUE,
                    log |-> << Ev("interrupts_enabled", 1), Ev("query_interrupt_line", 1),
                               Ev("get_interrupt_vector", 1), Ev("do_hw_interrupt", 0) >>]
              ELSE [cpu |-> c, pic |-> p, delivered |-> FALSE,
                    log |-> << Ev("interrupts_enabled", 1), Ev("query_interrupt_line", 1),
                               Ev("get_interrupt_vector", 0) >>]
         ELSE [cpu |-> c, pic |-> p, delivered |-> FALSE,
               log |-> << Ev("interrupts_enabled", 1), Ev("query_interrupt_line", 0) >>]
    ELSE [cpu |-> c, pic |-> p, delivered |-> FALSE,
          log |-> << Ev("interrupts_enabled", 0) >>]

\* Fault variant of latch_error: the flag follows the latest step
latch_error_latest_step(e, o) == o.err

\* Machine.error and Machine.error_str after a CPU step with outcome o
latch_error(e, o) == IF o.err THEN TRUE ELSE e
latch_error_str(str, o) == IF o.err THEN "CpuError" ELSE str

\* Machine::get_error_str: None is << >>, Some(s) is << s >>
get_error_str(e, str) == IF e THEN << str >> ELSE << >>

\* Fault variant of pop_front: the newest byte is taken
pop_back(kb) == [byte |-> kb[Len(kb)], rest |-> SubSeq(kb, 1, Len(kb) - 1)]

\* kb_buf.pop_front(): the oldest byte and the queue without it
pop_front(kb) == [byte |-> Head(kb), rest |-> Tail(kb)]

\* Fault variant of kb_event: no keyboard event is ever processed
kb_event_never(c, kb) == FALSE

\* Fault variant of kb_event: the once-per-call flag is not consulted
kb_event_every_step(c, kb) == Len(kb) > 0

\* The once-per-call keyboard injection test
kb_event(c, kb) == Len(kb) > 0 /\ ~c.kb_event_processed

\* Fault variant of kb_inject: the byte is sent but no interrupt is requested
kb_inject_no_irq(kb, rx, p) ==
    LET popped == pop_front(kb) IN
    [kb_buf |-> popped.rest,
     ppi_rx |-> Append(rx, popped.byte),
     pic |-> p,
     log |-> << Ev("pop_front", popped.byte), Ev("send_keyboard", popped.byte) >>]

\* The keyboard injection: pop, send_keyboard, request_interrupt(1)
kb_inject(kb, rx, p) ==
    LET popped == pop_front(kb) IN
    [kb_buf |-> popped.rest,
     ppi_rx |-> Append(rx, popped.byte),
     pic |-> pic_request_interrupt(p, 1),
     log |-> << Ev("pop_front", popped.byte), Ev("send_keyboard", popped.byte),
                Ev("request_interrupt", 1) >>]

\* Fault variant of step_skipped: the body runs whatever the CPU's state
step_skipped_never(c) == FALSE

\* The test that guards the body of an iteration: self.cpu.is_error()
step_skipped(c) == c.is_error

RunStep(o, overflow_checks) ==
    LET counted == count_cycles(call, cpu_cycles, overflow_checks)
        tail == counted.call
    IN
    /\ call.pc = "loop"
    /\ IF step_skipped(cpu)
       THEN /\ call' = [tail EXCEPT !.log = << Ev("is_error", 1), Ev("count", fake_cycles) >>]
            /\ cpu_cycles' = counted.cpu_cycles
            /\ UNCHANGED << bus, kb_buf, error, error_str, cpu, pic, ppi_rx, devs >>
       ELSE IF breakpoint_hit(call, cpu.flat)
       THEN /\ call' = [call EXCEPT !.pc = "done", !.exit = "breakpoint",
                                    !.flat_address = cpu.flat,
                                    !.log = << Ev("is_error", 0),
                                               Ev("get_flat_address", cpu.flat),
                                               Ev("breakpoint_check", 0) >>]
            /\ UNCHANGED << bus, kb_buf, error, error_str, cpu_cycles, cpu, pic, ppi_rx, devs >>
       ELSE LET patch == rom_is_patch_checkpoint(cpu.flat)
                bus1 == IF patch THEN rom_install_patches(bus) ELSE bus
                cpu1 == cpu_step(cpu, o)
                bus2 == cpu_step_bus(bus1, o)
                hw == hw_interrupt(cpu1, pic, o)
                kb_ev == kb_event(call, kb_buf)
                kb == IF kb_ev
                      THEN kb_inject(kb_buf, ppi_rx, hw.pic)
                      ELSE [kb_buf |-> kb_buf, ppi_rx |-> ppi_rx, pic |-> hw.pic,
                            log |-> << >>]
            IN
            /\ bus' = bus2
            /\ cpu' = hw.cpu
            /\ error' = latch_error(error, o)
            /\ error_str' = latch_error_str(error_str, o)
            /\ kb_buf' = kb.kb_buf
            /\ ppi_rx' = kb.ppi_rx
            /\ pic' = kb.pic
            /\ devs' = run_devices([devs |-> devs, log |-> << >>]).devs
            /\ cpu_cycles' = counted.cpu_cycles
            /\ call' = [ticked(tail, device_calls) EXCEPT
                          !.flat_address = cpu.flat,
                          !.steps = call.steps + 1,
                          !.hw_ints = call.hw_ints + (IF hw.delivered THEN 1 ELSE 0),
                          !.kb_event_processed = call.kb_event_processed \/ kb_ev,
                          !.log = << Ev("is_error", 0) >> \o probes(cpu.flat)
                                  \o (IF patch THEN << Ev("install_patches", 0) >> ELSE << >>)
                                  \o << Ev("cpu_step", IF o.err THEN 1 ELSE 0) >>
                                  \o hw.log \o kb.log \o device_calls
                                  \o << Ev("count", fake_cycles) >>]
    /\ UNCHANGED << ret, video, exec_control >>

Next ==
    \/ \E s \in ExecStates : SetState(s)
    \/ DoStep
    \/ DoRun
    \/ DoReset
    \/ \E code \in ScanCodes : KeyPress(code)
    \/ \E code \in ScanCodes : KeyRelease(code)
    \/ \E t \in CycleTargets, bp \in Breakpoints : RunCall(t, bp)
    \/ \E o \in StepOutcomes, overflow_checks \in BOOLEAN : RunStep(o, overflow_checks)

Spec == Init /\ [][Next]_vars

\* ------------------------------------------------------------------------
\* The machine left running: the front end has called do_run once and then
\* keeps calling run while keys are typed, with no bound on the number of
\* calls.  The loop runs to its end once entered, and a run call with a
\* positive cycle_target is made again and again.
\* ------------------------------------------------------------------------
InitKeys ==
    /\ bus = rom_copy_into_memory(BusNew)
    /\ ret = NoRet
    /\ video = NoDraw
    /\ exec_control = ec_do_run(ExecutionControlNew)
    /\ kb_buf = << >>
    /\ error = FALSE
    /\ error_str = ""
    /\ cpu_cycles = 0
    /\ cpu = CpuNew
    /\ pic = PicNew
    /\ ppi_rx = << >>
    /\ devs = DevNew
    /\ call = NoCall

FrameTargets == {0, 8}
\* What a CPU step does here: stay in place, move to the patch checkpoint
\* address with a store to RAM, or fail
KeysOutcomes ==
    { StepOutcome(FALSE, ResetFlat, FALSE, << >>, TRUE),
      StepOutcome(FALSE, PatchFlat, FALSE, <<0, 1>>, TRUE),
      StepOutcome(TRUE, ResetFlat, FALSE, << >>, TRUE) }

KeysPress(code) == Returned /\ KbRoom /\ key_press(code)
KeysRelease(code) == Returned /\ KbRoom /\ key_release(code)
KeysRun(cycle_target, breakpoint) == Returned /\ run_entry(cycle_target, breakpoint)
KeysRunPositive == \E t \in FrameTargets \ {0}, bp \in Breakpoints : KeysRun(t, bp)
KeysStep == \E o \in KeysOutcomes, overflow_checks \in BOOLEAN : RunStep(o, overflow_checks)

NextKeys ==
    \/ \E code \in ScanCodes : KeysPress(code)
    \/ \E code \in ScanCodes : KeysRelease(code)
    \/ \E t \in FrameTargets, bp \in Breakpoints : KeysRun(t, bp)
    \/ KeysStep

SpecKeys ==
    InitKeys /\ [][NextKeys]_vars /\ WF_vars(KeysRunPositive) /\ WF_vars(KeysStep)

\* ------------------------------------------------------------------------
\* The BusInterface API called directly (Machine::mut_bus), one action per
\* method.  ret records the call and what it returned.
\* ------------------------------------------------------------------------
SrcVecs == { << 128 >>, << 1, 128 >> }
Locations == 0 .. MemSize
CycleCosts == {4, 400}
Addresses == 0 .. MemSize
U8Data == {1}
I8Data == {-128}
U16Data == {384}
I16Data == {-32767}
CostIn == {0, 3}

InitBus ==
    /\ bus = BusNew
    /\ ret = NoRet
    /\ video = NoDraw
    /\ exec_control = ExecutionControlNew
    /\ kb_buf = << >>
    /\ error = FALSE
    /\ error_str = ""
    /\ cpu_cycles = 0
    /\ cpu = CpuNew
    /\ pic = PicNew
    /\ ppi_rx = << >>
    /\ devs = DevNew
    /\ call = NoCall

CopyFrom(src_vec, location, cycle_cost, read_only) ==
    LET r == copy_from(bus, src_vec, location, cycle_cost, read_only) IN
    /\ Len(bus.desc_vec) < MaxDesc
    /\ bus' = r.bus
    /\ ret' = [NoRet EXCEPT !.op = "copy_from", !.src = src_vec, !.address = location,
                            !.cycle_cost = cycle_cost, !.read_only = read_only,
                            !.ok = r.ok]
    /\ UNCHANGED machine_vars

PatchFrom(src_vec, location) ==
    LET r == patch_from(bus, src_vec, location) IN
    /\ bus' = r.bus
    /\ ret' = [NoRet EXCEPT !.op = "patch_from", !.src = src_vec, !.address = location,
                            !.ok = r.ok]
    /\ UNCHANGED machine_vars

BusReset ==
    /\ bus' = bus_reset(bus)
    /\ ret' = [NoRet EXCEPT !.op = "reset"]
    /\ UNCHANGED machine_vars

IndexedRead(op, r, address) ==
    /\ bus' = bus
    /\ ret' = [NoRet EXCEPT !.op = op, !.address = address, !.ok = r.ok,
                            !.val = r.val, !.cycles = r.cycles]
    /\ UNCHANGED machine_vars

ReadU8(address) == IndexedRead("read_u8", read_u8(bus, address), address)
ReadI8(address) == IndexedRead("read_i8", read_i8(bus, address), address)
ReadU16(address) == IndexedRead("read_u16", read_u16(bus, address), address)
ReadI16(address) == IndexedRead("read_i16", read_i16(bus, address), address)

IndexedWrite(op, r, address, data) ==
    /\ bus' = r.bus
    /\ ret' = [NoRet EXCEPT !.op = op, !.address = address, !.data = data,
                            !.ok = r.ok, !.cycles = r.cycles]
    /\ UNCHANGED machine_vars

WriteU8(address, data) == IndexedWrite("write_u8", write_u8(bus, address, data), address, data)
WriteI8(address, data) == IndexedWrite("write_i8", write_i8(bus, address, data), address, data)
WriteU16(address, data) == IndexedWrite("write_u16", write_u16(bus, address, data), address, data)
WriteI16(address, data) == IndexedWrite("write_i16", write_i16(bus, address, data), address, data)

SetCursor(pos) ==
    /\ bus' = set_cursor(bus, pos)
    /\ ret' = [NoRet EXCEPT !.op = "set_cursor", !.address = pos]
    /\ UNCHANGED machine_vars

\* ret.address is the cursor before the call, ret.cost0 and ret.cost the
\* caller's accumulator before and after it
CursorAccess(op, r, data, cost) ==
    /\ bus' = r.bus
    /\ ret' = [NoRet EXCEPT !.op = op, !.address = bus.cursor, !.data = data,
                            !.val = r.val, !.cost0 = cost, !.cost = r.cost]
    /\ UNCHANGED machine_vars

BiReadU8(cost) == CursorAccess("bi_read_u8", bi_read_u8(bus, cost), 0, cost)
BiReadI8(cost) == CursorAccess("bi_read_i8", bi_read_i8(bus, cost), 0, cost)
BiReadU16(cost) == CursorAccess("bi_read_u16", bi_read_u16(bus, cost), 0, cost)
BiReadI16(cost) == CursorAccess("bi_read_i16", bi_read_i16(bus, cost), 0, cost)
BiWriteU8(data, cost) == CursorAccess("bi_write_u8", bi_write_u8(bus, data, cost), data, cost)
BiWriteI8(data, cost) == CursorAccess("bi_write_i8", bi_write_i8(bus, data, cost), data, cost)
BiWriteU16(data, cost) == CursorAccess("bi_write_u16", bi_write_u16(bus, data, cost), data, cost)
BiWriteI16(data, cost) == CursorAccess("bi_write_i16", bi_write_i16(bus, data, cost), data, cost)

NextBus ==
    \/ \E src \in SrcVecs, l \in Locations, c \in CycleCosts, ro \in BOOLEAN :
          CopyFrom(src, l, c, ro)
    \/ \E src \in SrcVecs, l \in Locations : PatchFrom(src, l)
    \/ BusReset
    \/ \E a \in Addresses : ReadU8(a)
    \/ \E a \in Addresses : ReadI8(a)
    \/ \E a \in Addresses : ReadU16(a)
    \/ \E a \in Addresses : ReadI16(a)
    \/ \E a \in Addresses, d \in U8Data : WriteU8(a, d)
    \/ \E a \in Addresses, d \in I8Data : WriteI8(a, d)
    \/ \E a \in Addresses, d \in U16Data : WriteU16(a, d)
    \/ \E a \in Addresses, d \in U16Data : WriteI16(a, d)

SpecBus == InitBus /\ [][NextBus]_vars

NextCursor ==
    \/ \E src \in SrcVecs, l \in Locations, c \in CycleCosts, ro \in BOOLEAN :
          CopyFrom(src, l, c, ro)
    \/ \E pos \in Addresses : SetCursor(pos)
    \/ \E c \in CostIn : BiReadU8(c)
    \/ \E c \in CostIn : BiReadI8(c)
    \/ \E c \in CostIn : BiReadU16(c)
    \/ \E c \in CostIn : BiReadI16(c)
    \/ \E d \in U8Data, c \in CostIn : BiWriteU8(d, c)
    \/ \E d \in I8Data, c \in CostIn : BiWriteI8(d, c)
    \/ \E d \in U16Data, c \in CostIn : BiWriteU16(d, c)
    \/ \E d \in I16Data, c \in CostIn : BiWriteI16(d, c)

SpecCursor == InitBus /\ [][NextCursor]_vars

\* dump_flat called on a bus that copy_from and the indexed writes have filled
DumpSizes == 0 .. MemSize

\* ret.data is the size asked for, ret.ok is FALSE for the out-of-bounds text
DumpFlat(address, size) ==
    LET r == dump_flat(bus, address, size) IN
    /\ bus' = bus
    /\ ret' = [NoRet EXCEPT !.op = "dump_flat", !.address = address, !.data = size,
                            !.ok = ~r.oob, !.rows = r.rows]
    /\ UNCHANGED machine_vars

NextDump ==
    \/ \E src \in SrcVecs, l \in Locations, c \in CycleCosts, ro \in BOOLEAN :
          CopyFrom(src, l, c, ro)
    \/ \E a \in Addresses, d \in U8Data : WriteU8(a, d)
    \/ \E a \in Addresses, n \in DumpSizes : DumpFlat(a, n)

SpecDump == InitBus /\ [][NextDump]_vars

\* copy_from and patch_from called with any usize location, in a build with
\* or without overflow checks.  ret.panic is TRUE when the call panicked.
UsizeLocations == (0 .. MemSize) \cup {UsizeMax - 1, UsizeMax}

CopyFromUsize(src_vec, location, cycle_cost, read_only, overflow_checks) ==
    LET r == copy_from_usize(bus, src_vec, location, cycle_cost, read_only,
                             overflow_checks) IN
    /\ Len(bus.desc_vec) < MaxDesc
    /\ bus' = r.bus
    /\ ret' = [NoRet EXCEPT !.op = "copy_from", !.src = src_vec, !.address = location,
                            !.cycle_cost = cycle_cost, !.read_only = read_only,
                            !.ok = r.ok, !.panic = r.panic]
    /\ UNCHANGED machine_vars

PatchFromUsize(src_vec, location, overflow_checks) ==
    LET r == patch_from_usize(bus, src_vec, location, overflow_checks) IN
    /\ bus' = r.bus
    /\ ret' = [NoRet EXCEPT !.op = "patch_from", !.src = src_vec, !.address = location,
                            !.ok = r.ok, !.panic = r.panic]
    /\ UNCHANGED machine_vars

NextUsize ==
    \/ \E src \in SrcVecs, l \in UsizeLocations, c \in CycleCosts, ro \in BOOLEAN,
          overflow_checks \in BOOLEAN : CopyFromUsize(src, l, c, ro, overflow_checks)
    \/ \E src \in SrcVecs, l \in UsizeLocations, overflow_checks \in BOOLEAN :
          PatchFromUsize(src, l, overflow_checks)
    \/ \E pos \in Addresses : SetCursor(pos)

SpecUsize == InitBus /\ [][NextUsize]_vars

\* ------------------------------------------------------------------------
\* Video::draw_text_mode, called by Video::draw with FRAME_W and FRAME_H on a
\* video memory of MemCells character cells that all show `glyph`.  One
\* DrawCell step is one iteration of its loop over the cells; the cursor
\* drawn after the loop is left out.
\* ------------------------------------------------------------------------
Glyphs == {0, 255}
CharHeights == {1, 2, 8, 9, 12}

DrawTextMode(glyph, char_height, lowres) ==
    /\ video.pc # "loop"
    /\ video' = [NoDraw EXCEPT !.glyph = glyph, !.char_height = char_height,
                               !.lowres = lowres,
                               !.pc = IF char_height < 2 THEN "done" ELSE "loop"]
    /\ UNCHANGED << bus, ret, exec_control, kb_buf, error, error_str, cpu_cycles,
                    cpu, pic, ppi_rx, devs, call >>

DrawCell ==
    LET x == video.i % mem_span(video.lowres)
        y == video.i \div mem_span(video.lowres)
        max_y == (FRAME_H \div video.char_height) - 1
        g == IF video.lowres
             THEN draw_glyph4x(video.glyph, FRAME_W, FRAME_H, video.char_height,
                               x * 8, y * video.char_height)
             ELSE draw_glyph2x(video.glyph, FRAME_W, FRAME_H, video.char_height,
                               x * 8, y * video.char_height)
    IN
    /\ video.pc = "loop"
    /\ IF video.i >= MemCells \/ y > max_y
       THEN video' = [video EXCEPT !.pc = "done"]
       ELSE video' = [video EXCEPT
                        !.i = video.i + 1,
                        !.drawn = g.drawn,
                        !.font_max = g.font_max,
                        !.frame_max = g.frame_max,
                        !.pc = IF glyph_panics(g, FRAME_W, FRAME_H)
                               THEN "panic" ELSE "loop"]
    /\ UNCHANGED << bus, ret, exec_control, kb_buf, error, error_str, cpu_cycles,
                    cpu, pic, ppi_rx, devs, call >>

NextVideo ==
    \/ \E glyph \in Glyphs, char_height \in CharHeights, lowres \in BOOLEAN :
          DrawTextMode(glyph, char_height, lowres)
    \/ DrawCell

SpecVideo == InitBus /\ [][NextVideo]_vars

\* ========================================================================
\* Properties
\* ========================================================================

\* A step of the model that is the entry of a run call
RunEntered == call.pc \in {"idle", "done"} /\ call'.pc # "idle"

RoundUp7(x) == ((x + 6) \div 7) * 7

\* The last copy_from that covers address a since the last reset was read-only
LastStampReadOnly(b, a) ==
    \E i \in 1 .. Len(b.desc_vec) :
        /\ b.desc_vec[i].start <= a /\ a < b.desc_vec[i].end
        /\ b.desc_vec[i].read_only
        /\ \A j \in (i + 1) .. Len(b.desc_vec) :
              ~(b.desc_vec[j].start <= a /\ a < b.desc_vec[j].end)

IndexedWrites == {"write_u8", "write_i8", "write_u16", "write_i16"}
Cursor8 == {"bi_read_u8", "bi_read_i8", "bi_write_u8", "bi_write_i8"}
Cursor16 == {"bi_read_u16", "bi_read_i16", "bi_write_u16", "bi_write_i16"}

\* C1: when a loop iteration starts in state Running or BreakpointHit with the
\* CPU's flat address equal to a non-zero breakpoint, run returns with the
\* state set to BreakpointHit; on the first iteration no CPU step has run and
\* cpu_cycles is what it was at entry.
C1_BreakpointSetsState ==
    [][ (/\ call.pc = "loop"
         /\ ~cpu.is_error
         /\ exec_control.state # "Paused"
         /\ call.breakpoint # 0
         /\ cpu.flat = call.breakpoint)
        => (/\ call'.pc = "done"
            /\ exec_control'.state = "BreakpointHit"
            /\ (call.iters = 0 => call'.steps = 0 /\ cpu_cycles' = call.cycles0)) ]_vars

\* C2 (as stated): every run call entered with a non-empty keyboard queue
\* returns with the queue shorter by exactly one byte.
C2_ExactlyOneKeyPerRun ==
    (call.pc = "done" /\ call.kb0 > 0) => Len(kb_buf) = call.kb0 - 1

\* C2 (amended): a run call pops at most one byte whatever the queue depth
\* and hands each popped byte to the PPI; when it returns, the queue is
\* shorter by exactly one byte if the call executed at least one CPU step and
\* is unchanged otherwise.
C2_AtMostOneKeyPerRun ==
    [][ /\ (call'.pc # "idle" /\ call'.kb0 > 0)
              => (Len(kb_buf') = call'.kb0 \/ Len(kb_buf') = call'.kb0 - 1)
        /\ (call'.pc = "done" /\ call'.kb0 > 0)
              => Len(kb_buf') = (IF call'.steps > 0 THEN call'.kb0 - 1 ELSE call'.kb0)
        /\ (call'.pc # "idle")
              => (IF kb_buf' # kb_buf
                  THEN /\ kb_buf # << >>
                       /\ kb_buf' = Tail(kb_buf)
                       /\ ppi_rx' = Append(ppi_rx, Head(kb_buf))
                  ELSE ppi_rx' = ppi_rx) ]_vars

C2_Witness ==
    call.pc = "done" /\ call.kb0 = 2 /\ call.steps >= 2 /\ Len(kb_buf) = 1

\* C3 (as stated): cpu_cycles never decreases, and a run call that runs its
\* whole budget increases it by exactly cycle_target_adj.
C3_ExactlyTargetAdj ==
    [][ /\ cpu_cycles' >= cpu_cycles
        /\ (call'.pc = "done" /\ call'.exit = "budget")
              => cpu_cycles' = call'.cycles0 + call'.cycle_target_adj ]_vars

\* C3 (amended): cpu_cycles never decreases, and a run call that runs its
\* whole budget increases it by a multiple of 7 that is at least
\* cycle_target_adj: the smallest such multiple whenever that fits the u32 of
\* cycles_elapsed.
C3_RoundedUpTargetAdj ==
    [][ /\ cpu_cycles' >= cpu_cycles
        /\ (/\ call'.pc = "done"
            /\ call'.exit = "budget"
            /\ RoundUp7(call'.cycle_target_adj) < U32)
              => cpu_cycles' = call'.cycles0 + RoundUp7(call'.cycle_target_adj)
        /\ (call'.pc = "done" /\ call'.exit = "budget")
              => (/\ (cpu_cycles' - call'.cycles0) % 7 = 0
                  /\ cpu_cycles' - call'.cycles0 >= call'.cycle_target_adj) ]_vars

C3_Witness ==
    /\ call.pc = "done" /\ call.exit = "budget"
    /\ call.cycle_target_adj = 8
    /\ cpu_cycles = call.cycles0 + 14

\* C4: an indexed write_u8 to an address in a range stamped read-only by
\* copy_from returns Ok and changes no memory byte; right after the copy_from,
\* read_u8 there still returns the copied byte.
C4_RomWriteDropped ==
    [][ (/\ ret'.op = "write_u8"
         /\ ret'.address < MemSize
         /\ LastStampReadOnly(bus, ret'.address))
        => (/\ ret'.ok
            /\ bus'.memory = bus.memory
            /\ (/\ ret.op = "copy_from" /\ ret.ok /\ ret.read_only
                /\ ret.address <= ret'.address
                /\ ret'.address < ret.address + Len(ret.src))
                  => (/\ read_u8(bus', ret'.address).ok
                      /\ read_u8(bus', ret'.address).val
                            = ret.src[ret'.address - ret.address + 1])) ]_vars

C4_Witness ==
    /\ ret.op = "write_u8" /\ ret.ok
    /\ LastStampReadOnly(bus, ret.address)
    /\ bus.memory[ret.address] = 128
    /\ ret.data # 128

\* C5: no indexed write changes a byte whose access mask has the ROM bit set,
\* each byte of a 16-bit write taken on its own.
C5_RomBytesKeepValue ==
    [][ ret'.op \in IndexedWrites
        => \A a \in Addrs :
              BitAnd(bus.memory_mask[a], ROM_BIT) # 0
                 => bus'.memory[a] = bus.memory[a] ]_vars

\* C6: after a successful copy_from(src, L, c, ro), read_u8(L+i) returns src[i]
\* for every i below |src|, and the bytes outside the range are unchanged.
C6_CopyThenRead ==
    [][ (ret'.op = "copy_from" /\ ret'.ok)
        => \A a \in Addrs :
              IF ret'.address <= a /\ a < ret'.address + Len(ret'.src)
              THEN /\ read_u8(bus', a).ok
                   /\ read_u8(bus', a).val = ret'.src[a - ret'.address + 1]
              ELSE bus'.memory[a] = bus.memory[a] ]_vars

C6_Witness ==
    /\ ret.op = "copy_from" /\ ret.ok /\ Len(ret.src) = 1
    /\ \E a \in Addrs : a # ret.address /\ bus.memory[a] # 0

\* C7: a cursor-based access adds exactly 4 cycles to the caller's accumulator
\* when it is 8 bits wide and exactly 8 when it is 16 bits wide, in range or not.
C7_CursorCycleCost ==
    /\ ret.op \in Cursor8 => ret.cost = ret.cost0 + 4
    /\ ret.op \in Cursor16 => ret.cost = ret.cost0 + 8

\* C8: a run call entered in state Paused with neither do_step nor do_reset
\* set returns at once and changes nothing: no CPU step, no device tick, and
\* cpu_cycles, keyboard queue, memory, execution control and devices as before.
C8_PausedNoOp ==
    [][ (/\ RunEntered
         /\ exec_control.state = "Paused"
         /\ ~exec_control.do_step
         /\ ~exec_control.do_reset)
        => (/\ call'.pc = "done"
            /\ call'.steps = 0
            /\ \A d \in TickDevices : call'.ticks[d] = 0
            /\ UNCHANGED << bus, exec_control, kb_buf, error, error_str,
                            cpu_cycles, cpu, pic, ppi_rx, devs >>) ]_vars

C8_Witness ==
    /\ call.pc = "done" /\ call.exit = "paused"
    /\ exec_control.state = "Paused"
    /\ cpu_cycles > 0 /\ cpu_cycles = call.cycles0
    /\ Len(kb_buf) > 0

\* The three parts of C9 that do not depend on how run is entered: a step
\* call runs exactly one iteration, adds 7 cycles, ignores the breakpoint and
\* leaves the state Paused; a call that is not a step call stops at the
\* breakpoint.
C9_StepBody ==
    /\ (RunEntered /\ exec_control.state # "Paused" /\ ~exec_control.do_reset)
          => ~call'.ignore_breakpoint
    /\ (call.pc = "loop" /\ exec_control.state = "Paused")
          => (/\ call'.pc = "done" /\ call'.exit = "budget"
              /\ call'.iters = 1
              /\ cpu_cycles' = call.cycles0 + 7
              /\ exec_control'.state = "Paused"
              /\ (~cpu.is_error => call'.steps = 1))
    /\ (/\ call.pc = "loop" /\ exec_control.state # "Paused"
        /\ ~cpu.is_error
        /\ call.breakpoint # 0 /\ cpu.flat = call.breakpoint)
          => (/\ call'.pc = "done" /\ call'.exit = "breakpoint"
              /\ call'.steps = call.steps
              /\ cpu_cycles' = cpu_cycles)

C10_ResetFirst ==
    [][ (RunEntered /\ exec_control.do_reset)
        => (/\ call'.pc = "done"
            /\ exec_control' = [exec_control EXCEPT !.do_reset = FALSE]
            /\ cpu'.flat = ResetFlat /\ ~cpu'.is_error
            /\ bus'.memory = [a \in Addrs |-> IF a = RomLoc THEN RomImage[1] ELSE 0]
            /\ devs'["pit"].fresh
            /\ ~pic'.line
            /\ cpu_cycles' = cpu_cycles
            /\ kb_buf' = kb_buf /\ ppi_rx' = ppi_rx /\ pic'.irq1 = pic.irq1
            /\ call'.steps = 0 /\ call'.hw_ints = 0
            /\ \A d \in TickDevices : call'.ticks[d] = 0) ]_vars

C10_Witness ==
    /\ call.pc = "done" /\ call.exit = "reset"
    /\ exec_control.state = "Running"
    /\ cpu_cycles > 0 /\ cpu_cycles = call.cycles0
    /\ Len(kb_buf) > 0
    /\ devs["cga"].fresh = FALSE

Enqueued == ppi_rx \o kb_buf

IsPrefix(s, t) == Len(s) <= Len(t) /\ SubSeq(t, 1, Len(s)) = s

\* C12: over any interleaving of key_press, key_release and run, the bytes
\* handed to the PPI followed by the bytes still queued are the enqueued bytes
\* in order: key_press(c) appends c and key_release(c) appends c | 0x80 at the
\* back, every other step leaves the sequence alone and only moves its oldest
\* queued byte to the PPI, so the delivered bytes are always a prefix of it.
C12_FifoDelivery ==
    [][ /\ \A c \in ScanCodes :
              KeyPress(c) => (Enqueued' = Append(Enqueued, c) /\ ppi_rx' = ppi_rx)
        /\ \A c \in ScanCodes :
              KeyRelease(c)
                 => (/\ Enqueued' = Append(Enqueued, IF c >= 128 THEN c ELSE c + 128)
                     /\ ppi_rx' = ppi_rx)
        /\ ~(\E c \in ScanCodes : KeyPress(c) \/ KeyRelease(c))
              => (/\ Enqueued' = Enqueued
                  /\ IsPrefix(ppi_rx, ppi_rx')
                  /\ Len(ppi_rx') <= Len(ppi_rx) + 1)
        /\ IsPrefix(ppi_rx', Enqueued') ]_vars

C12_Witness ==
    ppi_rx = << 30, 158 >> /\ kb_buf = << >>

\* C13: while run keeps being called in state Running with a positive
\* cycle_target, the CPU never enters its error state, no call returns at the
\* breakpoint before its first step and no call aborts, every enqueued byte
\* is eventually handed to the PPI.
C13_NoKeyDropped ==
    (/\ [](~cpu.is_error)
     /\ [](~(call.pc = "done" /\ call.exit = "breakpoint" /\ call.steps = 0))
     /\ [](call.pc # "panic"))
    => \A n \in 1 .. MaxKb : (Len(Enqueued) >= n) ~> (Len(ppi_rx) >= n)

C13_Witness ==
    /\ exec_control.state = "Running"
    /\ ~cpu.is_error
    /\ call.pc = "done" /\ call.exit = "budget" /\ call.kb0 = 1
    /\ Len(ppi_rx) = MaxKb /\ kb_buf = << >>

\* C14: an indexed read_u16(a) that fits in the address space returns
\* read_u8(a) | (read_u8(a+1) << 8), and read_i16(a) returns the same 16 bits
\* taken as a signed number.
C14_LittleEndianRead ==
    /\ \A a \in 0 .. (MemSize - 2) :
          /\ read_u16(bus, a).ok
          /\ read_i16(bus, a).ok
    /\ (ret.op \in {"read_u16", "read_i16"} /\ ret.address <= MemSize - 2)
          => LET lo == read_u8(bus, ret.address).val
                 hi == read_u8(bus, ret.address + 1).val
                 w == lo + hi * 256
             IN /\ ret.ok
                /\ ret.op = "read_u16" => ret.val = w
                /\ ret.op = "read_i16"
                      => ret.val = (IF w >= 32768 THEN w - 65536 ELSE w)

C14_Witness ==
    /\ ret.op = "read_i16" /\ ret.ok /\ ret.val < 0
    /\ bus.memory[ret.address] # 0

\* The access mask of address a has the ROM bit clear
InRam(b, a) == BitAnd(b.memory_mask[a], ROM_BIT) = 0

\* C15: after an indexed write_u8(a, x) at an address that is not ROM-masked,
\* read_u8(a) returns x; after an indexed write_u16(a, x) of a word that lies
\* in RAM, read_u16(a) returns x, whatever the bytes held before.
C15_WriteReadRoundTrip ==
    [][ /\ (/\ ret'.op = "write_u8" /\ ret'.address < MemSize
            /\ InRam(bus, ret'.address))
              => (/\ ret'.ok
                  /\ read_u8(bus', ret'.address).ok
                  /\ read_u8(bus', ret'.address).val = ret'.data)
        /\ (/\ ret'.op = "write_u16" /\ ret'.address < MemSize - 1
            /\ InRam(bus, ret'.address) /\ InRam(bus, ret'.address + 1))
              => (/\ ret'.ok
                  /\ read_u16(bus', ret'.address).ok
                  /\ read_u16(bus', ret'.address).val = ret'.data)
        /\ (/\ ret.op = "write_u8" /\ ret.ok /\ InRam(bus, ret.address)
            /\ ret'.op = "read_u8" /\ ret'.address = ret.address)
              => (ret'.ok /\ ret'.val = ret.data)
        /\ (/\ ret.op = "write_u16" /\ ret.ok
            /\ InRam(bus, ret.address) /\ InRam(bus, ret.address + 1)
            /\ ret'.op = "read_u16" /\ ret'.address = ret.address)
              => (ret'.ok /\ ret'.val = ret.data) ]_vars

C15_Witness ==
    /\ ret.op = "read_u16" /\ ret.ok /\ ret.val = 384
    /\ InRam(bus, ret.address) /\ InRam(bus, ret.address + 1)
    /\ Len(bus.desc_vec) > 0

\* C16: a cursor-based read with the cursor out of range returns all ones for
\* its width (0xFF, -1, 0xFFFF, -1) and adds 4 cycles (8-bit) or 8 cycles
\* (16-bit) to the accumulator; for a 16-bit read the last byte of the address
\* space is already out of range.
C16_CursorReadOutOfRange ==
    /\ (ret.op = "bi_read_u8" /\ ret.address >= MemSize)
          => (ret.val = 255 /\ ret.cost = ret.cost0 + 4)
    /\ (ret.op = "bi_read_i8" /\ ret.address >= MemSize)
          => (ret.val = -1 /\ ret.cost = ret.cost0 + 4)
    /\ (ret.op = "bi_read_u16" /\ ret.address >= MemSize - 1)
          => (ret.val = 65535 /\ ret.cost = ret.cost0 + 8)
    /\ (ret.op = "bi_read_i16" /\ ret.address >= MemSize - 1)
          => (ret.val = -1 /\ ret.cost = ret.cost0 + 8)

C16_Witness ==
    /\ ret.op = "bi_read_u16" /\ ret.address = MemSize - 1
    /\ ret.val = 65535 /\ ret.cost0 = 3 /\ ret.cost = 11
    /\ bus.cursor = MemSize - 1
    /\ bus.memory[MemSize - 1] = 1

IndexedOps8 == {"read_u8", "read_i8", "write_u8", "write_i8"}
IndexedOps16 == {"read_u16", "read_i16", "write_u16", "write_i16"}

\* C17: an indexed accessor returns the out-of-bounds error exactly when the
\* access does not fit in the address space (8-bit: address >= len, 16-bit:
\* address >= len - 1), and a call that returns the error leaves memory, mask,
\* descriptors and cursor as they were.
C17_IndexedOutOfBounds ==
    [][ /\ ret'.op \in IndexedOps8 => (ret'.ok <=> ret'.address < MemSize)
        /\ ret'.op \in IndexedOps16 => (ret'.ok <=> ret'.address < MemSize - 1)
        /\ (ret'.op \in IndexedOps8 \cup IndexedOps16 /\ ~ret'.ok) => bus' = bus ]_vars

C17_Witness ==
    /\ ret.op = "write_u16" /\ ~ret.ok /\ ret.address = MemSize - 1
    /\ InRam(bus, MemSize - 1)
    /\ bus.memory[MemSize - 1] = 128

\* C18: patch_from(src, location) with location + |src| within the address
\* space succeeds and writes src into memory at location, ROM-masked bytes
\* included; the other memory bytes, the access mask, the descriptor list and
\* the cursor are unchanged.
C18_PatchIgnoresRom ==
    [][ (ret'.op = "patch_from" /\ ret'.address + Len(ret'.src) <= MemSize)
        => (/\ ret'.ok
            /\ \A a \in Addrs :
                  bus'.memory[a] =
                     (IF ret'.address <= a /\ a < ret'.address + Len(ret'.src)
                      THEN ret'.src[a - ret'.address + 1]
                      ELSE bus.memory[a])
            /\ bus'.memory_mask = bus.memory_mask
            /\ bus'.desc_vec = bus.desc_vec
            /\ bus'.cursor = bus.cursor) ]_vars

C18_Witness ==
    /\ ret.op = "patch_from" /\ ret.ok /\ ret.address = 0
    /\ Len(bus.desc_vec) = 1
    /\ bus.desc_vec[1].read_only /\ bus.desc_vec[1].start = 0 /\ bus.desc_vec[1].size = 1
    /\ ~InRam(bus, 0)
    /\ bus.memory[0] = 1

\* C19: BusInterface.reset sets every memory byte to 0 and empties the
\* descriptor list but leaves the access mask as it was, so an address whose
\* mask carried the ROM bit before reset still drops an indexed write after it.
C19_ResetKeepsMask ==
    [][ /\ ret'.op = "reset"
           => (/\ \A a \in Addrs : bus'.memory[a] = 0
               /\ bus'.desc_vec = << >>
               /\ bus'.memory_mask = bus.memory_mask
               /\ \A a \in Addrs, d \in U8Data :
                     ~InRam(bus, a)
                        => (/\ write_u8(bus', a, d).ok
                            /\ write_u8(bus', a, d).bus.memory[a] = 0))
        /\ (/\ ret.op = "reset" /\ ret'.op = "write_u8"
            /\ ret'.address < MemSize /\ ~InRam(bus, ret'.address))
           => (ret'.ok /\ bus'.memory = bus.memory) ]_vars

C19_Witness ==
    /\ ret.op = "write_u8" /\ ret.ok /\ ret.data # 0
    /\ bus.desc_vec = << >>
    /\ ~InRam(bus, ret.address)
    /\ bus.memory[ret.address] = 0

\* C20: the reset carried out by run resets the CPU, zeroes RAM, stamps the ROM
\* image again and resets PIT and PIC, and nothing else: DMA, PPI, FDC, HDC and
\* CGA keep their state, and the keyboard queue, the bytes already handed to
\* the PPI, the error fields and cpu_cycles are unchanged.
C20_ResetFrame ==
    [][ (RunEntered /\ call'.exit = "reset")
        => (/\ cpu' = CpuNew
            /\ \A a \in Addrs \ {RomLoc} : bus'.memory[a] = 0 /\ InRam(bus', a)
            /\ bus'.memory[RomLoc] = RomImage[1] /\ ~InRam(bus', RomLoc)
            /\ Len(bus'.desc_vec) = 1 /\ bus'.desc_vec[1].read_only
            /\ devs'["pit"] = DevNew["pit"]
            /\ pic'.line = PicNew.line
            /\ \A d \in TickDevices \ {"pit"} : devs'[d] = devs[d]
            /\ kb_buf' = kb_buf
            /\ ppi_rx' = ppi_rx
            /\ cpu_cycles' = cpu_cycles
            /\ error' = error /\ error_str' = error_str) ]_vars

C20_Witness ==
    /\ call.pc = "done" /\ call.exit = "reset"
    /\ \A d \in TickDevices \ {"pit"} : ~devs[d].fresh
    /\ devs["pit"].fresh
    /\ Len(kb_buf) > 0 /\ Len(ppi_rx) > 0
    /\ cpu_cycles > 0
    /\ bus.memory[RomLoc] = RomImage[1]

\* C21: dump_flat(address, size) returns the out-of-bounds text exactly when
\* address + size is greater than the size of the address space; a request
\* that ends exactly at the end of the address space is dumped.
C21_DumpOobExactlyBeyondEnd ==
    [][ ret'.op = "dump_flat"
        => (~ret'.ok <=> ret'.address + ret'.data > MemSize) ]_vars

\* The loop iteration just taken called cpu.step and it returned Err
StepFailed ==
    call.pc = "loop" /\ \E i \in DOMAIN call'.log : call'.log[i] = Ev("cpu_step", 1)

\* The loop iteration just taken called cpu.step
StepExecuted ==
    call.pc = "loop" /\ \E i \in DOMAIN call'.log : call'.log[i].ev = "cpu_step"

\* C22: get_error_str returns None from construction until a CPU step returns
\* an error; the failing step makes it return the message, and it returns a
\* message in every later state: no operation, reset included, clears the latch.
C22_ErrorLatched ==
    /\ get_error_str(error, error_str) = << >>
    /\ [][ /\ get_error_str(error, error_str) # << >>
              => get_error_str(error', error_str') # << >>
           /\ (get_error_str(error, error_str) = << >>
               /\ get_error_str(error', error_str') # << >>) => StepFailed
           /\ StepFailed => get_error_str(error', error_str') = << "CpuError" >> ]_vars

C22_Witness ==
    /\ get_error_str(error, error_str) = << "CpuError" >>
    /\ ~cpu.is_error
    /\ call.pc = "done" /\ call.exit = "budget" /\ call.steps = 1
    /\ \E i \in DOMAIN call.log : call.log[i] = Ev("cpu_step", 0)

\* C23: when cpu.step returns an error the error is latched with its text and
\* the iteration ends there: no interrupt poll, keyboard injection or device
\* run follows the failed step, and no later iteration of the call steps the CPU.
C23_ErrorStopsStep ==
    [][ /\ StepFailed
           => (/\ error' /\ error_str' = "CpuError"
               /\ call'.log[Len(call'.log)] = Ev("cpu_step", 1)
               /\ kb_buf' = kb_buf /\ ppi_rx' = ppi_rx /\ pic' = pic
               /\ devs' = devs /\ call'.ticks = call.ticks
               /\ call'.hw_ints = call.hw_ints)
        /\ (call.pc = "loop" /\ cpu.is_error) => ~StepExecuted ]_vars

\* C24: a loop iteration that starts with the CPU in error state ends the
\* loop: the call returns and neither cycles_elapsed nor cpu_cycles grows.
C24_ErrorStopsLoop ==
    [][ (call.pc = "loop" /\ cpu.is_error)
        => (/\ call'.pc = "done"
            /\ call'.cycles_elapsed = call.cycles_elapsed
            /\ cpu_cycles' = cpu_cycles) ]_vars

\* What the claim rules out of an iteration's log
BodyCalls ==
    {"breakpoint_check", "cpu_step", "do_hw_interrupt", "pop_front", "send_keyboard"}
        \cup TickDevices

\* The step of the model is part of a run call made with the CPU in error
\* state and does none of the body's calls; queue and devices are untouched
ErrorRunIdle ==
    /\ \A i \in DOMAIN call'.log : call'.log[i].ev \notin BodyCalls
    /\ call'.steps = (IF RunEntered THEN 0 ELSE call.steps)
    /\ call'.hw_ints = (IF RunEntered THEN 0 ELSE call.hw_ints)
    /\ \A d \in TickDevices : call'.ticks[d] = (IF RunEntered THEN 0 ELSE call.ticks[d])
    /\ call'.exit # "breakpoint"
    /\ kb_buf' = kb_buf /\ ppi_rx' = ppi_rx

PhaseOrder ==
    << "is_error", "get_flat_address", "breakpoint_check", "get_checkpoint",
       "is_patch_checkpoint", "install_patches", "cpu_step", "interrupts_enabled",
       "query_interrupt_line", "get_interrupt_vector", "do_hw_interrupt",
       "pop_front", "send_keyboard", "request_interrupt",
       "dma", "pit", "cga", "ppi", "fdc", "hdc", "count" >>

Rank(name) == CHOOSE k \in DOMAIN PhaseOrder : PhaseOrder[k] = name

\* The phases every executed step goes through
StepPhases ==
    {"breakpoint_check", "get_checkpoint", "is_patch_checkpoint", "cpu_step",
     "interrupts_enabled", "dma", "pit", "cga", "ppi", "fdc", "hdc", "count"}

InLog(log, name) == \E i \in DOMAIN log : log[i].ev = name

\* C26: in every executed step the calls are made in the order breakpoint
\* check, checkpoint probe, patch-checkpoint probe (and installation), CPU step,
\* interrupt delivery, keyboard injection, DMA, PIT, CGA, PPI, FDC, HDC, cycle
\* count.  The patch probe sees the address before the CPU step, interrupt
\* delivery sees the PIC before the keyboard injection, so an IRQ1 raised by
\* the injection is not delivered in the same step, and a breakpoint return
\* installs no patch and counts no cycles.
C26_PhaseOrder ==
    [][ /\ StepExecuted
           => (/\ \A i, j \in DOMAIN call'.log :
                     i < j => Rank(call'.log[i].ev) < Rank(call'.log[j].ev)
               /\ \A name \in StepPhases : InLog(call'.log, name)
               /\ InLog(call'.log, "install_patches") <=> rom_is_patch_checkpoint(cpu.flat)
               /\ InLog(call'.log, "do_hw_interrupt") => pic.line
               /\ (~pic.line /\ InLog(call'.log, "request_interrupt"))
                     => (call'.hw_ints = call.hw_ints /\ pic'.line))
        /\ (call.pc = "loop" /\ call'.exit = "breakpoint")
           => (/\ bus' = bus /\ cpu_cycles' = cpu_cycles
               /\ call'.log[Len(call'.log)].ev = "breakpoint_check"
               /\ ~InLog(call'.log, "install_patches")) ]_vars

C26_Witness ==
    /\ call.pc = "done" /\ call.exit = "budget"
    /\ InLog(call.log, "install_patches")
    /\ InLog(call.log, "do_hw_interrupt")
    /\ InLog(call.log, "request_interrupt")
    /\ bus.memory[RomLoc] = RomPatch[1]
    /\ pic.line /\ cpu.flat = IntFlat

\* The positions of log at which name was called
Calls(log, name) == {i \in DOMAIN log : log[i].ev = name}

\* C27: a run call pops at most one byte from the keyboard queue however many
\* steps it executes; a popped byte is handed to the PPI and followed by
\* exactly one request_interrupt(1), so the number of IRQ1 requests made to
\* the PIC always equals the number of bytes handed to the PPI.
C27_OneIrqPerKey ==
    /\ pic.irq1 = Len(ppi_rx)
    /\ [][ /\ pic'.irq1 = Len(ppi_rx')
           /\ call'.pc # "idle"
                 => (call'.kb0 - Len(kb_buf') \in {0, 1}
                     /\ (call'.kb_event_processed <=> Len(kb_buf') = call'.kb0 - 1))
           /\ (call.pc = "loop" /\ call.kb_event_processed)
                 => (kb_buf' = kb_buf /\ ppi_rx' = ppi_rx /\ pic'.irq1 = pic.irq1)
           /\ call.pc = "loop"
                 => (/\ Cardinality(Calls(call'.log, "pop_front")) = Len(kb_buf) - Len(kb_buf')
                     /\ Cardinality(Calls(call'.log, "pop_front")) <= 1
                     /\ Cardinality(Calls(call'.log, "request_interrupt"))
                           = Cardinality(Calls(call'.log, "pop_front"))
                     /\ \A i \in Calls(call'.log, "pop_front") :
                           /\ call'.log[i].arg = Head(kb_buf)
                           /\ call'.log[i + 1] = Ev("send_keyboard", Head(kb_buf))
                           /\ call'.log[i + 2] = Ev("request_interrupt", 1)
                           /\ ppi_rx' = Append(ppi_rx, Head(kb_buf))
                           /\ pic'.irq1 = pic.irq1 + 1) ]_vars

C27_Witness ==
    /\ call.pc = "done" /\ call.exit = "budget"
    /\ call.kb0 = 2 /\ call.steps >= 2 /\ Len(kb_buf) = 1
    /\ Len(ppi_rx) = 1 /\ pic.irq1 = 1 /\ pic.line
    /\ ~InLog(call.log, "pop_front")

Logged(log, name, arg) == \E i \in DOMAIN log : log[i] = Ev(name, arg)

\* C28: in a step cpu.do_hw_interrupt is called at most once, and exactly when,
\* after the CPU step, interrupts_enabled is true, the PIC's line is asserted
\* and get_interrupt_vector returns a vector; the line is queried only with
\* interrupts enabled and the vector is fetched only with the line asserted.
C28_InterruptDelivery ==
    [][ call.pc = "loop"
        => (/\ Cardinality(Calls(call'.log, "do_hw_interrupt")) <= 1
            /\ call'.hw_ints - call.hw_ints
                  = Cardinality(Calls(call'.log, "do_hw_interrupt"))
            /\ InLog(call'.log, "do_hw_interrupt")
                  <=> (/\ Logged(call'.log, "interrupts_enabled", 1)
                       /\ Logged(call'.log, "query_interrupt_line", 1)
                       /\ Logged(call'.log, "get_interrupt_vector", 1))
            /\ InLog(call'.log, "query_interrupt_line")
                  <=> Logged(call'.log, "interrupts_enabled", 1)
            /\ InLog(call'.log, "get_interrupt_vector")
                  <=> Logged(call'.log, "query_interrupt_line", 1)
            /\ InLog(call'.log, "interrupts_enabled") <=> InLog(call'.log, "cpu_step")
            /\ \A i \in Calls(call'.log, "interrupts_enabled") :
                  \E j \in Calls(call'.log, "cpu_step") : j < i
            /\ Logged(call'.log, "query_interrupt_line", 1) <=>
                  (Logged(call'.log, "interrupts_enabled", 1) /\ pic.line)) ]_vars

C28_Witness ==
    /\ call.pc = "done" /\ call.exit = "budget"
    /\ call.steps = 1 /\ call.hw_ints = 1
    /\ InLog(call.log, "do_hw_interrupt")
    /\ ~InLog(call.log, "request_interrupt")
    /\ cpu.flat = IntFlat /\ ~cpu.iflag /\ ~pic.line

\* C29: a run call executes at most ceil(target / 7) loop iterations for the
\* target it runs with, so cycles_elapsed ends less than 7 above the target
\* and its additions never overflow (no panic, no wrapped value).
C29_BoundedIterations ==
    /\ call.pc # "panic"
    /\ call.iters * fake_cycles < call.cycle_target_adj + fake_cycles
    /\ call.cycles_elapsed = call.iters * fake_cycles
    /\ (call.pc = "done" /\ call.exit = "budget")
          => call.cycles_elapsed < call.cycle_target_adj + fake_cycles

\* The devices whose run call takes a cycle count
TimedDevices == {"pit", "cga", "ppi", "fdc", "hdc"}

\* C30: at every point of every run call each of the six devices has been run
\* exactly once per CPU step the call has executed: an iteration runs all six
\* once if it steps the CPU and none of them otherwise, nothing else runs a
\* device, and every run of PIT, CGA, PPI, FDC and HDC is passed 7 cycles.
\* Summed over the calls made, the six devices have been run equally often.
C30_GapFreeTicks ==
    /\ \A d \in TickDevices : call.ticks[d] = call.steps
    /\ [][ /\ \A d \in TickDevices : call'.ticks[d] = call'.steps
           /\ \A d \in TickDevices :
                 Cardinality(Calls(call'.log, d)) = Cardinality(Calls(call'.log, "cpu_step"))
           /\ Cardinality(Calls(call'.log, "cpu_step")) <= 1
           /\ \A i \in DOMAIN call'.log :
                 call'.log[i].ev \in TimedDevices => call'.log[i].arg = fake_cycles
           /\ StepExecuted
                 => (call'.steps = call.steps + 1
                     /\ \A d \in TickDevices : ~devs'[d].fresh)
           /\ ~StepExecuted
                 => (/\ call'.pc # "idle" /\ call.pc = "loop" => call'.steps = call.steps
                     /\ \A d \in TickDevices \ {"pit"} : devs'[d] = devs[d]
                     /\ devs'["pit"] # devs["pit"] => call'.exit = "reset") ]_vars

C30_Witness ==
    /\ call.pc = "done" /\ call.exit = "budget"
    /\ call.iters = 2 /\ call.steps = 1
    /\ \A d \in TickDevices : call.ticks[d] = 1 /\ ~devs[d].fresh
    /\ cpu.is_error
    /\ ~InLog(call.log, "hdc")

CursorWrites == {"bi_write_u8", "bi_write_i8", "bi_write_u16", "bi_write_i16"}

\* The bytes a cursor-based access of kind op at cursor position pos covers
Covered(op, pos) ==
    IF op \in Cursor8 THEN {pos} \cap Addrs
    ELSE IF pos < MemSize - 1 THEN {pos, pos + 1} ELSE {}

\* C32: a cursor-based write to an address whose access mask has the ROM bit
\* set is ignored: the byte keeps its value, and the cycle cost is still
\* charged to the caller's accumulator.
C32_CursorWriteRespectsRom ==
    [][ ret'.op \in CursorWrites
        => (/\ \A a \in Covered(ret'.op, ret'.address) :
                  ~InRam(bus, a) => bus'.memory[a] = bus.memory[a]
            /\ ret'.cost > ret'.cost0) ]_vars

CursorWidth(op) == IF op \in Cursor8 THEN 1 ELSE 2

\* C33: a cursor-based read or write whose bytes lie inside the address space
\* advances the cursor by the access width (1 or 2); one that is out of range
\* leaves the cursor where it was, and an out-of-range cursor-based write
\* leaves every memory byte unchanged.
C33_CursorAdvance ==
    [][ ret'.op \in Cursor8 \cup Cursor16
        => IF bus.cursor + CursorWidth(ret'.op) <= MemSize
           THEN bus'.cursor = bus.cursor + CursorWidth(ret'.op)
           ELSE /\ bus'.cursor = bus.cursor
                /\ ret'.op \in CursorWrites => bus'.memory = bus.memory ]_vars

\* A cursor write made with the cursor at the end of the address space has
\* been refused: the cursor is still there and the written memory is intact
C33_Witness ==
    /\ ret.op = "bi_write_u8"
    /\ ret.address = MemSize
    /\ bus.cursor = MemSize
    /\ bus.memory[MemSize - 2] = 128
    /\ bus.memory[MemSize - 1] = 1

\* C34: a successful copy_from(src, location, cycle_cost, read_only) sets every
\* mask byte in [location, location + |src|) to (cycle_cost & 0xEF) with the
\* ROM bit OR'd in if read_only, leaves the mask bytes outside the range as
\* they were, and appends exactly one descriptor with start = location,
\* end = location + |src|, size = |src| and the given cycle_cost and read_only.
C34_CopyFromStamp ==
    [][ ret'.op = "copy_from" /\ ret'.ok
        => LET location == ret'.address
               size == Len(ret'.src)
               stamp == BitOr(BitAnd(ret'.cycle_cost, 239),
                              IF ret'.read_only THEN 128 ELSE 0) IN
           /\ \A a \in Addrs :
                 bus'.memory_mask[a] =
                     IF location <= a /\ a < location + size
                     THEN stamp ELSE bus.memory_mask[a]
           /\ bus'.desc_vec = Append(bus.desc_vec,
                 [start |-> location, end |-> location + size, size |-> size,
                  cycle_cost |-> ret'.cycle_cost,
                  read_only |-> ret'.read_only]) ]_vars

\* A second image has been stamped read-only over the last byte only, with a
\* cycle cost above 255, next to a byte that keeps the first image's mask
C34_Witness ==
    /\ ret.op = "copy_from"
    /\ ret.ok
    /\ ret.read_only
    /\ ret.cycle_cost = 400
    /\ ret.address = MemSize - 1
    /\ Len(bus.desc_vec) = 2
    /\ bus.memory_mask[MemSize - 2] = 4
    /\ bus.memory_mask[MemSize - 1] = 128

\* C39: after a successful copy_from the ROM bit of every mask byte in the
\* stamped range is set if and only if read_only was TRUE, whatever the cycle
\* cost, so that a range stamped with read_only = FALSE accepts indexed writes.
C39_RomBitIffReadOnly ==
    [][ ret'.op = "copy_from" /\ ret'.ok
        => \A a \in Addrs :
              ret'.address <= a /\ a < ret'.address + Len(ret'.src)
              => (~InRam(bus', a) <=> ret'.read_only) ]_vars

\* C35: copy_from and patch_from return Err exactly when location + |src|
\* exceeds the address space, and a call that returns Err changes nothing:
\* memory, access mask, descriptor list and cursor are as before.
C35_ErrExactlyBeyondEnd ==
    [][ ret'.op \in {"copy_from", "patch_from"}
        => LET returned_err == ~ret'.panic /\ ~ret'.ok IN
           /\ returned_err <=> ret'.address + Len(ret'.src) > MemSize
           /\ returned_err => bus' = bus ]_vars

\* C36: an accepted dump_flat(address, size) renders every one of the size
\* bytes memory[address .. address + size) in address order, 16 to a row, each
\* row labelled with its start address, with bytes 32..=127 shown as
\* themselves in the character column and every other byte as '.' (46); the
\* call leaves the bus as it was.
C36_DumpRendersEveryByte ==
    [][ ret'.op = "dump_flat" /\ ret'.ok
        => /\ bus' = bus
           /\ \A i \in 0 .. (ret'.data - 1) :
                 LET k == (i \div 16) + 1
                     j == (i % 16) + 1
                     byte == bus.memory[ret'.address + i] IN
                 /\ k \in DOMAIN ret'.rows
                 /\ ret'.rows[k].address = ret'.address + 16 * (k - 1)
                 /\ ret'.rows[k].bytes[j] = byte
                 /\ ret'.rows[k].ascii[j] =
                        (IF byte >= 32 /\ byte <= 127 THEN byte ELSE 46) ]_vars

\* C37: do_step is cleared only by a run call that finds the state Paused and
\* no reset pending, and that call performs the single step (slice of one
\* cycle, breakpoint ignored); a run call that finds do_step set in state
\* Running or BreakpointHit, or together with do_reset, leaves it set.
C37_StepRequestKept ==
    [][ /\ exec_control.do_step /\ ~exec_control'.do_step
           => /\ RunEntered
              /\ exec_control.state = "Paused"
              /\ ~exec_control.do_reset
        /\ RunEntered /\ exec_control.do_step
           => IF exec_control.state = "Paused" /\ ~exec_control.do_reset
              THEN /\ ~exec_control'.do_step
                   /\ call'.pc = "loop"
                   /\ call'.cycle_target_adj = 1
                   /\ call'.ignore_breakpoint
              ELSE exec_control'.do_step ]_vars

\* A run call made in state Running with a step request pending has executed
\* CPU steps and returned, and the request is still pending
C37_Witness ==
    /\ call.pc = "done"
    /\ call.exit = "budget"
    /\ call.steps > 0
    /\ exec_control.state = "Running"
    /\ exec_control.do_step

\* C38: a run call made in state Running or BreakpointHit with no reset
\* pending, a non-zero breakpoint and the CPU's flat address equal to it
\* executes no CPU step and leaves cpu_cycles, the keyboard queue, the CPU and
\* all devices as they were, at its entry and in every loop iteration.
C38_BreakpointHoldsMachine ==
    [][ LET held == /\ call'.steps = 0
                    /\ cpu_cycles' = cpu_cycles
                    /\ kb_buf' = kb_buf
                    /\ devs' = devs
                    /\ cpu' = cpu IN
        /\ (/\ RunEntered
            /\ exec_control.state # "Paused"
            /\ ~exec_control.do_reset
            /\ call'.breakpoint # 0
            /\ cpu.flat = call'.breakpoint) => held
        /\ (/\ call.pc = "loop"
            /\ exec_control.state # "Paused"
            /\ call.steps = 0
            /\ call.breakpoint # 0
            /\ cpu.flat = call.breakpoint) => held ]_vars

\* No borrow_mut of trace t from position i on meets a handle in `held`
\* that is still borrowed, and every borrow has been dropped at the end
RECURSIVE BorrowsExclusive(_, _, _)
BorrowsExclusive(t, i, held) ==
    IF i > Len(t) THEN held = {}
    ELSE IF t[i].op = "borrow_mut"
    THEN t[i].handle \notin held /\ BorrowsExclusive(t, i + 1, held \cup {t[i].handle})
    ELSE t[i].handle \in held /\ BorrowsExclusive(t, i + 1, held \ {t[i].handle})

\* C31: at every point of a run step at most one borrow of each shared device
\* handle (PIC, PIT, DMA, PPI, CGA, FDC, HDC) is live: the loop never calls
\* borrow_mut on a handle whose earlier borrow it still holds, and it holds
\* none when the iteration ends.
C31_OneBorrowPerHandle ==
    /\ \A i \in DOMAIN borrow_trace(call.log) :
          borrow_trace(call.log)[i].handle \in Handles
    /\ BorrowsExclusive(borrow_trace(call.log), 1, {})

\* An iteration that delivered a hardware interrupt under the polling borrow
\* of the PIC, then injected a key (a second PIC borrow) and ran the devices
C31_Witness ==
    /\ InLog(call.log, "do_hw_interrupt")
    /\ InLog(call.log, "request_interrupt")
    /\ InLog(call.log, "hdc")
    /\ Len(borrow_trace(call.log)) = 32

\* C40: whatever the glyph code, the cell and the character height (2 or
\* more), the glyph drawn for a cell by draw_text_mode reads the font table
\* only at indices below 2048 and writes the frame only at offsets below
\* frame_w * frame_h * 4.
C40_GlyphAccessInBounds ==
    (video.pc # "idle" /\ video.drawn)
    => /\ video.font_max < 2048
       /\ video.frame_max < 640 * 400 * 4

====
